---------------------------- MODULE Spec2Model ----------------------------
(***************************************************************************)
(* Ultimate Matrix Rain (erbuka/ultimate-matrix-rain): the falling-string  *)
(* simulation, the frame compositor, the blur filter and the bloom engine. *)
(*                                                                         *)
(* Conventions of the model                                                *)
(*  - floats are exact rationals.  Depth factors are kept in hundredths    *)
(*    (0.15 -> 15), a head position y in 1/YDen rows, a frame time dt in   *)
(*    1/YDen seconds, so that std::round has something to round.           *)
(*  - rand() is the C library generator: a deterministic stream with a     *)
(*    hidden position.  The stream is RandStream, repeated; the position   *)
(*    the program starts at is arbitrary.                                  *)
(*  - an OpenGL context is a record (GlContext); every gl* call of the     *)
(*    code is an operator from context to context, and every glClear and   *)
(*    glDrawArrays appends a record of what it drew, with the state it     *)
(*    drew under, to the context's log.                                    *)
(*  - the application is Spec.  The two filter classes are also run on     *)
(*    their own, with arguments the application never passes: the bloom    *)
(*    engine in SpecBloom, the blur filter in SpecBlur, where the contents *)
(*    of the textures are followed pixel by pixel (pixels).                *)
(***************************************************************************)
EXTENDS Integers, Naturals, Sequences, FiniteSets, TLC

VARIABLES
    pc,                 \* where run() is: "start" (initialize() has returned), "poll" (in
                        \* glfwPollEvents), or the process is gone: "exited", "crashed"
    win,                \* what glfwGetWindowSize returns: <<w, h>>
    prev_win,           \* history: the window size before the last size callback
    rand_pos,           \* hidden state of rand(): position in RandStream
    oob_depth,          \* what the build reads one past the end of s_depth_layers
    fault,              \* the undefined operation the last handler executed, or "none"
    s_falling_strings,  \* the pool: 1..s_falling_strings_count -> falling_string
    s_grids,            \* layer -> sequence of cells appended this frame
    gl,                 \* the OpenGL context
    s_fx_bloom,         \* the bloom object: m_width, m_height, m_sizes, chains
    respawned,          \* history: pool indices init_falling_string re-ran on in the last render
    pixels,             \* texture -> image, for the textures whose contents are followed
    args                \* history: the arguments of the last call made on a filter object

vars == <<pc, win, prev_win, rand_pos, oob_depth, fault,
          s_falling_strings, s_grids, gl, s_fx_bloom, respawned, pixels, args>>

---------------------------------------------------------------------------
(* Fixed animation settings, application.cpp 482-496                       *)

s_blur_scale == 1
s_col_count == 100
s_falling_string_min_length == 15
s_falling_string_max_length == 40
s_falling_string_min_speed == 10
s_falling_string_max_speed == 30

\* s_depth_layers = {0.15, 0.30, 0.50, 1.00}, in hundredths, indexed from 0
s_depth_layers == [i \in 0..3 |-> CASE i = 0 -> 15 [] i = 1 -> 30 [] i = 2 -> 50 [] i = 3 -> 100]

s_depth_layers_size == Cardinality(DOMAIN s_depth_layers)

\* the pool holds 1500 strings; the model holds s_falling_strings_count of them
s_falling_strings_count == 1

\* the denominator of y and dt
YDen == 2

\* frame times, in 1/YDen seconds
Dts == {0, 61}

\* the sizes the window takes; the first is the one run() creates
InitialWindow == <<1280, 768>>
WindowSizes == {<<1280, 768>>, <<800, 600>>, <<300, 2>>}

---------------------------------------------------------------------------
(* rand()                                                                  *)

RAND_MAX == 32767

\* the values the generator cycles through: both ends of its range, values
\* that are 99 modulo 100 (the largest remainders of % 20 and % 25) and values
\* that select each depth layer
RandStream == <<0, 19699, 32767, 99, 30999, 27099, 1>>

rand(pos) == RandStream[pos]

rand_next(pos) == (pos % Len(RandStream)) + 1

\* position after n calls
RECURSIVE rand_skip(_, _)
rand_skip(pos, n) == IF n = 0 THEN pos ELSE rand_skip(rand_next(pos), n - 1)

---------------------------------------------------------------------------
(* init_falling_string, application.cpp 556-577                            *)

\* float t = rand() / float(RAND_MAX); return size_t(t * t * s_depth_layers.size())
\* floor(n r^2 / R^2), computed without leaving 32 bits
get_random_layer(r) ==
    LET n == s_depth_layers_size
        R2 == RAND_MAX * RAND_MAX
    IN Cardinality({k \in 1..n : r * r >= (k * (R2 \div n)) + (((k * (R2 % n)) + n - 1) \div n)})

\* the values a read one past the end of s_depth_layers may produce, in hundredths
OobDepths == {15, 100}

\* s_depth_layers[i] as the build reads it: past the end it is whatever lies there
depth_at(i, oob) == IF i \in DOMAIN s_depth_layers THEN s_depth_layers[i] ELSE oob

\* init_falling_string with the random offset alone as the head position
init_falling_string_offset_only(s, vh_num, vh_den, pos, oob) ==
    LET p1 == pos
        p2 == rand_next(p1)
        p3 == rand_next(p2)
        p4 == rand_next(p3)
        p5 == rand_next(p4)
        layer_index == get_random_layer(rand(p1))
        speed == s_falling_string_min_speed
                   + (rand(p2) % (s_falling_string_max_speed - s_falling_string_min_speed))
        length == s_falling_string_min_length
                   + (rand(p3) % (s_falling_string_max_length - s_falling_string_min_length))
        depth == depth_at(layer_index, oob)
        col_count == IF depth > 0 THEN (s_col_count * 100) \div depth ELSE 0
        y_range == IF depth > 0 THEN (vh_num * 100) \div (vh_den * depth) ELSE 0
        flt == IF col_count = 0 \/ y_range = 0 THEN "mod_zero"
               ELSE IF layer_index \notin DOMAIN s_depth_layers THEN "oob_depth_layer"
               ELSE "none"
        x == IF col_count > 0 THEN rand(p4) % col_count ELSE 0
        y == IF y_range > 0 THEN (-(rand(p5) % y_range)) * YDen ELSE 0
    IN [s     |-> [x |-> x, y |-> y, speed |-> speed,
                   layer_index |-> layer_index, length |-> length],
        pos   |-> rand_next(p5),
        fault |-> flt]

\* The result of init_falling_string(s, view_height), view_height = vh_num / vh_den.
\* Five calls of rand(), in the order of the code.  fault names the undefined
\* operation the call executes, if any: the read of s_depth_layers past its end
\* (571), a col_count of 0 (572) or a y range of 0 (576) as the right operand of %.
\* The build is for x86_64 (premake5.lua), where the idiv of a % 0 traps: after a
\* "mod_zero" the string returned is never used.
init_falling_string(s, vh_num, vh_den, pos, oob) ==
    LET p1 == pos
        p2 == rand_next(p1)
        p3 == rand_next(p2)
        p4 == rand_next(p3)
        p5 == rand_next(p4)
        layer_index == get_random_layer(rand(p1))
        speed == s_falling_string_min_speed
                   + (rand(p2) % (s_falling_string_max_speed - s_falling_string_min_speed))
        length == s_falling_string_min_length
                   + (rand(p3) % (s_falling_string_max_length - s_falling_string_min_length))
        depth == depth_at(layer_index, oob)
        col_count == IF depth > 0 THEN (s_col_count * 100) \div depth ELSE 0
        y_range == IF depth > 0 THEN (vh_num * 100) \div (vh_den * depth) ELSE 0
        flt == IF col_count = 0 \/ y_range = 0 THEN "mod_zero"
               ELSE IF layer_index \notin DOMAIN s_depth_layers THEN "oob_depth_layer"
               ELSE "none"
        x == IF col_count > 0 THEN rand(p4) % col_count ELSE 0
        y == IF y_range > 0 THEN (-(length + (rand(p5) % y_range))) * YDen
                            ELSE (-length) * YDen
    IN [s     |-> [x |-> x, y |-> y, speed |-> speed,
                   layer_index |-> layer_index, length |-> length],
        pos   |-> rand_next(p5),
        fault |-> flt]

\* what a handler has executed when one call executed f1 and a later one f2
Faulted(f1, f2) == IF f1 = "mod_zero" \/ f2 = "none" THEN f1
                   ELSE IF f2 = "mod_zero" \/ f1 = "none" THEN f2
                   ELSE f1

---------------------------------------------------------------------------
(* update_falling_string, application.cpp 607-635                          *)

\* std::round of y / YDen: to nearest, halves away from zero
round(y) == IF y >= 0 THEN ((2 * y) + YDen) \div (2 * YDen)
                      ELSE -(((2 * (-y)) + YDen) \div (2 * YDen))

\* the rows of the string: max_y and min_y of 611-612
max_y_of(s) == round(s.y)
min_y_of(s) == max_y_of(s) - s.length + 1

\* min_y * cell_size >= view_height (633), cell_size = view_width / s_col_count * depth
\* and view_width = s_col_count (660), view_height = vh_num / vh_den
out_of_screen(s, vh_num, vh_den, oob) ==
    min_y_of(s) * depth_at(s.layer_index, oob) * vh_den >= vh_num * 100

\* the cells of 614-627: one per row min_y..max_y, with the fade fraction
\* t = tnum / tden of 616
cells_of(s) ==
    [k \in 1..s.length |->
        [x |-> s.x, y |-> min_y_of(s) + k - 1, layer |-> s.layer_index,
         tnum |-> k - 1, tden |-> max_y_of(s) - min_y_of(s)]]

\* The result of update_falling_string(s, dt, view_width, view_height): the string,
\* the cells pushed, whether init_falling_string re-ran, the position of rand() and
\* the undefined operation executed, if any (s_grids[layer_index] past the end, 626);
\* in_init is whether that operation is one of the init_falling_string of 634.
update_falling_string(s, dt, vh_num, vh_den, pos, oob) ==
    LET moved == [s EXCEPT !.y = @ + dt * s.speed]
        gridflt == IF s.layer_index \in DOMAIN s_depth_layers THEN "none" ELSE "oob_grid"
        again == init_falling_string(moved, vh_num, vh_den, pos, oob)
    IN IF out_of_screen(s, vh_num, vh_den, oob)
       THEN [s |-> again.s, cells |-> cells_of(s), respawn |-> TRUE, pos |-> again.pos,
             fault |-> Faulted(gridflt, again.fault),
             in_init |-> Faulted(gridflt, again.fault) # gridflt]
       ELSE [s |-> moved, cells |-> cells_of(s), respawn |-> FALSE, pos |-> pos,
             fault |-> gridflt, in_init |-> FALSE]

\* Lines 663-669 of render: the grids are cleared, then every string of the pool is
\* updated in pool order.  Folds update_falling_string over pool[1..n].  respawned
\* is the set of strings init_falling_string re-ran on; begun is that set for a
\* process that dies in the undefined operation fault.
RECURSIVE update_all_layer_after(_, _, _, _, _, _, _)
update_all_layer_after(pool, n, dt, vh_num, vh_den, pos, oob) ==
    IF n = 0
    THEN [pool |-> pool, grids |-> [l \in DOMAIN s_depth_layers |-> << >>],
          respawned |-> {}, begun |-> {}, pos |-> pos, fault |-> "none"]
    ELSE LET before == update_all_layer_after(pool, n - 1, dt, vh_num, vh_den, pos, oob)
             u == update_falling_string(pool[n], dt, vh_num, vh_den, before.pos, oob)
             l == u.s.layer_index
         IN [pool |-> [before.pool EXCEPT ![n] = u.s],
             grids |-> IF l \in DOMAIN before.grids
                       THEN [before.grids EXCEPT ![l] = @ \o u.cells]
                       ELSE before.grids,
             respawned |-> IF u.respawn THEN before.respawned \cup {n} ELSE before.respawned,
             begun |-> IF Faulted(before.fault, u.fault) = before.fault THEN before.begun
                       ELSE IF u.in_init THEN before.respawned \cup {n}
                       ELSE before.respawned,
             pos |-> u.pos,
             fault |-> Faulted(before.fault, u.fault)]

RECURSIVE update_all(_, _, _, _, _, _, _)
update_all(pool, n, dt, vh_num, vh_den, pos, oob) ==
    IF n = 0
    THEN [pool |-> pool, grids |-> [l \in DOMAIN s_depth_layers |-> << >>],
          respawned |-> {}, begun |-> {}, pos |-> pos, fault |-> "none"]
    ELSE LET before == update_all(pool, n - 1, dt, vh_num, vh_den, pos, oob)
             u == update_falling_string(pool[n], dt, vh_num, vh_den, before.pos, oob)
             l == pool[n].layer_index
         IN [pool |-> [before.pool EXCEPT ![n] = u.s],
             grids |-> IF l \in DOMAIN before.grids
                       THEN [before.grids EXCEPT ![l] = @ \o u.cells]
                       ELSE before.grids,
             respawned |-> IF u.respawn THEN before.respawned \cup {n} ELSE before.respawned,
             begun |-> IF Faulted(before.fault, u.fault) = before.fault THEN before.begun
                       ELSE IF u.in_init THEN before.respawned \cup {n}
                       ELSE before.respawned,
             pos |-> u.pos,
             fault |-> Faulted(before.fault, u.fault)]

\* Lines 800-802 of resize: init_falling_string on every string of the pool
RECURSIVE init_all(_, _, _, _, _, _)
init_all(pool, n, vh_num, vh_den, pos, oob) ==
    IF n = 0
    THEN [pool |-> pool, pos |-> pos, fault |-> "none"]
    ELSE LET before == init_all(pool, n - 1, vh_num, vh_den, pos, oob)
             r == init_falling_string(pool[n], vh_num, vh_den, before.pos, oob)
         IN [pool |-> [before.pool EXCEPT ![n] = r.s],
             pos |-> r.pos,
             fault |-> Faulted(before.fault, r.fault)]

\* get_view_size (586-590): {s_col_count, int32(h / w * s_col_count)}
get_view_size(w, h) == <<s_col_count, (h * s_col_count) \div w>>

---------------------------------------------------------------------------
(* The OpenGL context.  Names of objects are naturals, 0 is no object and, *)
(* for a framebuffer, the window's default framebuffer.                    *)

GL_BLEND == "GL_BLEND"
GL_FRAMEBUFFER_SRGB == "GL_FRAMEBUFFER_SRGB"
Caps == {GL_BLEND, GL_FRAMEBUFFER_SRGB}

\* the n smallest names not in used
RECURSIVE GenNames(_, _)
GenNames(used, n) ==
    IF n = 0 THEN << >>
    ELSE LET m == CHOOSE k \in 1..(Cardinality(used) + 1) : k \notin used
         IN <<m>> \o GenNames(used \cup {m}, n - 1)

SeqRange(q) == {q[i] : i \in DOMAIN q}

\* the texture the bound framebuffer draws into: 0 for the default framebuffer
Target(g) == IF g.fb = 0 THEN 0 ELSE g.att[g.fb]

\* the size of what is drawn into: the window for the default framebuffer
TargetSize(g) == IF g.fb = 0 THEN g.window
                 ELSE IF g.att[g.fb] \in DOMAIN g.size THEN g.size[g.att[g.fb]] ELSE <<0, 0>>

\* the texture units a program samples, as the code sets its sampler uniforms:
\* uFont = 0 (647), uTexture = 0 (697, 725, 759; filter.cpp 193), uBloom = 1 (760),
\* uSource = 0 (filter.cpp 296, 319), uPrevious = 0 and uDownsample = 1 (349-350)
ProgramUnits(prog) ==
    CASE prog \in {"hdr", "upsample"} -> <<0, 1>>
      [] prog \in {"strings", "pass_trough", "hblur", "vblur", "prefilter", "downsample"} -> <<0>>
      [] OTHER -> << >>

\* what a glClear or glDrawArrays leaves in the log.  strength is uStrength as a
\* pair <<numerator, denominator>>
Drawn(g, op) ==
    [op |-> op, prog |-> IF op = "draw" THEN g.prog ELSE "none",
     fb |-> g.fb, dst |-> Target(g), dstsize |-> TargetSize(g), vp |-> g.vp,
     src |-> IF op = "draw" THEN [k \in DOMAIN ProgramUnits(g.prog) |-> g.bound[ProgramUnits(g.prog)[k]]]
             ELSE << >>,
     va |-> IF op = "draw" THEN g.va ELSE "none",
     grid |-> IF op = "draw" /\ g.va = "s_va" THEN g.vb_grid ELSE -1,
     blend |-> g.caps[GL_BLEND], srgb |-> g.caps[GL_FRAMEBUFFER_SRGB],
     strength |-> IF op = "draw" /\ g.prog \in {"hblur", "vblur"} THEN g.uStrength ELSE <<0, 1>>]

\* glBindFramebuffer.  A name glGenFramebuffers never returned is refused with
\* GL_INVALID_OPERATION by a context that requires generated names and creates a
\* framebuffer object of that name in one that does not.
glBindFramebuffer(g, name) ==
    IF name = 0 \/ name \in g.fbs THEN [g EXCEPT !.fb = name]
    ELSE IF g.generated_names_only THEN [g EXCEPT !.error = TRUE]
    ELSE [g EXCEPT !.fb = name, !.fbs = @ \cup {name}, !.att = (name :> 0) @@ @]

\* glFramebufferTexture2D(GL_FRAMEBUFFER, GL_COLOR_ATTACHMENT0, GL_TEXTURE_2D, tex, 0)
glFramebufferTexture2D(g, tex) ==
    IF g.fb = 0 THEN [g EXCEPT !.error = TRUE] ELSE [g EXCEPT !.att[g.fb] = tex]

glGenFramebuffer(g) ==
    LET n == GenNames(g.fbs, 1)[1]
    IN [g |-> [g EXCEPT !.fbs = @ \cup {n}, !.att = (n :> 0) @@ @], name |-> n]

glClear(g) == [g EXCEPT !.log = Append(@, Drawn(g, "clear"))]

glDrawArrays(g) == [g EXCEPT !.log = Append(@, Drawn(g, "draw"))]

\* a glViewport that leaves the viewport as it is
glViewport_ignored(g, w, h) == g

glViewport(g, w, h) == [g EXCEPT !.vp = <<w, h>>]

glUseProgram(g, prog) == [g EXCEPT !.prog = prog]

glBindVertexArray(g, va) == [g EXCEPT !.va = va]

\* glBufferData(GL_ARRAY_BUFFER, ..., cells.data(), ...) into s_vb, the cells being
\* those of grid number grid
glBufferData(g, grid) == [g EXCEPT !.vb_grid = grid]

glUniform_uStrength(g, strength) == [g EXCEPT !.uStrength = strength]

glActiveTexture(g, unit) == [g EXCEPT !.active = unit]

glBindTexture(g, tex) == [g EXCEPT !.bound[g.active] = tex]

\* glTexImage2D(GL_TEXTURE_2D, 0, fmt, w, h, 0, ..., nullptr) on the texture bound
\* to the active unit: new storage, contents undefined
glTexImage2D(g, w, h) ==
    LET tex == g.bound[g.active]
    IN IF tex = 0 THEN [g EXCEPT !.error = TRUE]
       ELSE [g EXCEPT !.size = (tex :> <<w, h>>) @@ @,
                      !.log = Append(@, [Drawn(g, "alloc") EXCEPT !.dst = tex, !.dstsize = <<w, h>>])]

\* glGenTextures(n, ...) returning names, which are GenNames(g.texs, n)
glGenTextures(g, names) == [g EXCEPT !.texs = @ \cup SeqRange(names)]

\* glDeleteTextures: the names are free again, the storage is gone, and a deleted
\* texture is unbound from the units of the current context
glDeleteTextures(g, names) ==
    [g EXCEPT !.texs = @ \ SeqRange(names),
              !.size = [t \in (DOMAIN @) \ SeqRange(names) |-> @[t]],
              !.bound = [u \in DOMAIN @ |-> IF @[u] \in SeqRange(names) THEN 0 ELSE @[u]]]

glEnable(g, cap) == [g EXCEPT !.caps[cap] = TRUE]
glDisable(g, cap) == [g EXCEPT !.caps[cap] = FALSE]
glIsEnabled(g, cap) == g.caps[cap]

---------------------------------------------------------------------------
(* enable_scope, unnamed/part_009 172-182.  The scope objects alive are    *)
(* kept with the context, innermost last: each is its m_bits.              *)

\* a constructor that records every bit as enabled without asking the context
enable_scope_saves_enabled(g, bits) ==
    [g EXCEPT !.scopes = Append(@, [bit \in bits |-> TRUE])]

\* the constructor: m_bits[bit] = glIsEnabled(bit) == GL_TRUE
enable_scope(g, bits) ==
    [g EXCEPT !.scopes = Append(@, [bit \in bits |-> glIsEnabled(g, bit)])]

\* a destructor that forgets what the constructor saved: the scope ends and the
\* bits stay as the scope's body left them
enable_scope_dtor_no_restore(g) ==
    [g EXCEPT !.scopes = SubSeq(@, 1, Len(@) - 1)]

\* the destructor of the innermost scope: enabled ? glEnable(bit) : glDisable(bit)
enable_scope_dtor(g) ==
    LET m_bits == g.scopes[Len(g.scopes)]
    IN [g EXCEPT !.caps = [c \in Caps |-> IF c \in DOMAIN m_bits THEN m_bits[c] ELSE @[c]],
                 !.scopes = SubSeq(@, 1, Len(@) - 1)]

\* v[i] of a std::vector v of size n (i from 0): the subscript is noted in the
\* context's access history as <<vector, index, size>>
subscript(g, name, i, n) == [g EXCEPT !.access = Append(@, <<name, i, n>>)]

---------------------------------------------------------------------------
(* A handler is the sequence of the calls it makes, each a tuple of the    *)
(* call's name and arguments; Exec runs them in order on a context.        *)

Step(g, c) ==
    CASE c[1] = "glBindFramebuffer" -> glBindFramebuffer(g, c[2])
      [] c[1] = "glFramebufferTexture2D" -> glFramebufferTexture2D(g, c[2])
      [] c[1] = "glClear" -> glClear(g)
      [] c[1] = "glDrawArrays" -> glDrawArrays(g)
      [] c[1] = "glViewport" -> glViewport(g, c[2], c[3])
      [] c[1] = "glUseProgram" -> glUseProgram(g, c[2])
      [] c[1] = "glBindVertexArray" -> glBindVertexArray(g, c[2])
      [] c[1] = "glBufferData" -> glBufferData(g, c[2])
      [] c[1] = "glUniform1f_uStrength" -> glUniform_uStrength(g, c[2])
      [] c[1] = "glActiveTexture" -> glActiveTexture(g, c[2])
      [] c[1] = "glBindTexture" -> glBindTexture(g, c[2])
      [] c[1] = "glTexImage2D" -> glTexImage2D(g, c[2], c[3])
      [] c[1] = "glGenTextures" -> glGenTextures(g, c[2])
      [] c[1] = "glDeleteTextures" -> glDeleteTextures(g, c[2])
      [] c[1] = "glEnable" -> glEnable(g, c[2])
      [] c[1] = "glDisable" -> glDisable(g, c[2])
      [] c[1] = "enable_scope" -> enable_scope(g, c[2])
      [] c[1] = "~enable_scope" -> enable_scope_dtor(g)
      [] c[1] = "subscript" -> subscript(g, c[2], c[3], c[4])

\* the only element of a singleton
Val(S) == CHOOSE x \in S : TRUE

\* calls lo..hi of cmds, in order; the context between two halves is a value
RECURSIVE ExecRange(_, _, _, _)
ExecRange(g, cmds, lo, hi) ==
    IF lo > hi THEN g
    ELSE IF lo = hi THEN Step(g, cmds[lo])
    ELSE Val({ExecRange(m, cmds, ((lo + hi) \div 2) + 1, hi) :
                 m \in {ExecRange(g, cmds, lo, (lo + hi) \div 2)}})

Exec(g0, cmds0) == Val({ExecRange(g, cmds, 1, Len(cmds)) : g \in {g0}, cmds \in {cmds0}})

\* the function f0 with all its values computed
Table(f0) == Val({IF f = f THEN f ELSE f : f \in {f0}})

---------------------------------------------------------------------------
(* The objects initialize() creates, application.cpp 822-889, named in the *)
(* order the context hands names out.                                      *)

font_m_texture == 1          \* font::load, glGenTextures
blur_m_ping_pong == 2        \* blur_filter::blur_filter, filter.cpp 145
s_tx_blur0 == 3              \* 867
s_tx_blur1 == 4              \* 874
s_tx_final_render == 5       \* 881

blur_m_framebuffer == 1      \* filter.cpp 144
bloom_m_fb_render_target == 2 \* filter.cpp 206
s_fb_render_target == 3      \* 864

---------------------------------------------------------------------------
(* blur_filter::apply, filter.cpp 168-202                                  *)

\* both passes read the texture they write
blur_passes_in_place(target) ==
    << <<target, target, "hblur">>,
       <<target, target, "vblur">> >>

\* the two passes in the other order: the vertical pass first
blur_passes_swapped(target) ==
    << <<target, blur_m_ping_pong, "vblur">>,
       <<blur_m_ping_pong, target, "hblur">> >>

\* std::array passes (171-173): <<dst, src, program>>
blur_passes(target) ==
    << <<blur_m_ping_pong, target, "hblur">>,
       <<target, blur_m_ping_pong, "vblur">> >>

\* the body of the inner loop, 182-199
blur_pass(pass, width, height, strength) ==
    LET dst == pass[1]
        src == pass[2]
        program == pass[3]
    IN << <<"glBindTexture", dst>>,
          <<"glTexImage2D", width, height>>,
          <<"glBindFramebuffer", blur_m_framebuffer>>,
          <<"glFramebufferTexture2D", dst>>,
          <<"glClear">>,
          <<"glUseProgram", program>>,
          <<"glUniform1f_uStrength", strength>>,
          <<"glActiveTexture", 0>>,
          <<"glBindTexture", src>>,
          <<"glBindVertexArray", "blur_m_quad_va">>,
          <<"glDrawArrays">> >>

\* iterations it..iterations-1 of the outer loop, 178-201
RECURSIVE blur_iterations(_, _, _, _, _, _)
blur_iterations(it, target, width, height, strength, iterations) ==
    IF it >= iterations THEN << >>
    ELSE blur_pass(blur_passes(target)[1], width, height, strength)
         \o blur_pass(blur_passes(target)[2], width, height, strength)
         \o blur_iterations(it + 1, target, width, height, strength, iterations)

blur_filter_apply(target, width, height, strength, iterations) ==
    << <<"enable_scope", {GL_BLEND}>>, <<"glDisable", GL_BLEND>> >>
    \o blur_iterations(0, target, width, height, strength, iterations)
    \o << <<"~enable_scope">> >>

---------------------------------------------------------------------------
(* bloom, filter.cpp 233-357.  A bloom object is a record b of its members *)
(* m_width, m_height, m_sizes, m_tx_downsample, m_tx_upsample; the vectors *)
(* are sequences, element i of the code is element i + 1 here.             *)

\* the loop of 240-245 with > for >=: it stops one level early
RECURSIVE mip_sizes_strict(_, _)
mip_sizes_strict(width, height) ==
    IF width > 1 /\ height > 1
    THEN << <<width, height>> >> \o mip_sizes_strict(width \div 2, height \div 2)
    ELSE << >>

\* the loop of 240-245
RECURSIVE mip_sizes(_, _)
mip_sizes(width, height) ==
    IF width >= 1 /\ height >= 1
    THEN << <<width, height>> >> \o mip_sizes(width \div 2, height \div 2)
    ELSE << >>

\* the loop of 259-275 from level i on: storage for both chains
RECURSIVE bloom_alloc(_, _, _, _)
bloom_alloc(i, sizes, down, up) ==
    IF i > Len(sizes) THEN << >>
    ELSE << <<"glBindTexture", down[i]>>,
            <<"glTexImage2D", sizes[i][1], sizes[i][2]>>,
            <<"glBindTexture", up[i]>>,
            <<"glTexImage2D", sizes[i][1], sizes[i][2]>> >>
         \o bloom_alloc(i + 1, sizes, down, up)

\* bloom::resize(width, height) on the object b, texs being the texture names in
\* use at the call: the calls made and the object afterwards
bloom_resize(texs, b, width, height) ==
    LET sizes == mip_sizes(width, height)
        kept == (texs \ SeqRange(b.m_tx_downsample)) \ SeqRange(b.m_tx_upsample)
        down == GenNames(kept, Len(sizes))
        up == GenNames(kept \cup SeqRange(down), Len(sizes))
    IN [cmds |-> (IF Len(b.m_tx_downsample) > 0
                  THEN << <<"glDeleteTextures", b.m_tx_downsample>> >> ELSE << >>)
              \o (IF Len(b.m_tx_upsample) > 0
                  THEN << <<"glDeleteTextures", b.m_tx_upsample>> >> ELSE << >>)
              \o << <<"glGenTextures", down>>, <<"glGenTextures", up>> >>
              \o bloom_alloc(1, sizes, down, up),
        b |-> [m_width |-> width, m_height |-> height, m_sizes |-> sizes,
               m_tx_downsample |-> down, m_tx_upsample |-> up]]

\* v[i] (i from 0) of a vector of handles or of sizes; where there is no such
\* element the value read is 0
At(v, i) == IF i + 1 \in DOMAIN v THEN v[i + 1] ELSE 0
SizeAt(v, i) == IF i + 1 \in DOMAIN v THEN v[i + 1] ELSE <<0, 0>>

\* the downsample loop, 307-323, from level i on
RECURSIVE bloom_down(_, _)
bloom_down(b, i) ==
    IF i >= Len(b.m_tx_downsample) THEN << >>
    ELSE << <<"subscript", "m_sizes", i, Len(b.m_sizes)>>,
            <<"glViewport", SizeAt(b.m_sizes, i)[1], SizeAt(b.m_sizes, i)[2]>>,
            <<"subscript", "m_tx_downsample", i, Len(b.m_tx_downsample)>>,
            <<"glFramebufferTexture2D", At(b.m_tx_downsample, i)>>,
            <<"glClear">>,
            <<"glActiveTexture", 0>>,
            <<"subscript", "m_tx_downsample", i - 1, Len(b.m_tx_downsample)>>,
            <<"glBindTexture", At(b.m_tx_downsample, i - 1)>>,
            <<"glBindVertexArray", "bloom_m_quad_va">>,
            <<"glDrawArrays">> >>
         \o bloom_down(b, i + 1)

\* the upsample loop, 334-354, from level i down
RECURSIVE bloom_up(_, _)
bloom_up(b, i) ==
    IF i < 0 THEN << >>
    ELSE << <<"subscript", "m_sizes", i, Len(b.m_sizes)>>,
            <<"glViewport", SizeAt(b.m_sizes, i)[1], SizeAt(b.m_sizes, i)[2]>>,
            <<"subscript", "m_tx_upsample", i, Len(b.m_tx_upsample)>>,
            <<"glFramebufferTexture2D", At(b.m_tx_upsample, i)>>,
            <<"glClear">>,
            <<"glActiveTexture", 0>>,
            <<"subscript", "m_tx_upsample", i + 1, Len(b.m_tx_upsample)>>,
            <<"glBindTexture", At(b.m_tx_upsample, i + 1)>>,
            <<"glActiveTexture", 1>>,
            <<"subscript", "m_tx_downsample", i, Len(b.m_tx_downsample)>>,
            <<"glBindTexture", At(b.m_tx_downsample, i)>>,
            <<"glBindVertexArray", "bloom_m_quad_va">>,
            <<"glDrawArrays">> >>
         \o bloom_up(b, i - 1)

\* the upsample loop started at the last level, whose i + 1 is past the end
up_start_at_last(n) == n - 1

\* the upsample loop started one level late: level size - 2 is never drawn
up_start_late(n) == n - 3

\* int32_t i = m_tx_upsample.size() - 2 (334): the subtraction is done in size_t
\* and wraps modulo 2^64 for a size below 2; the conversion to int32_t keeps the
\* low 32 bits as a signed number, which for every size below 2^31 is size - 2
up_start(n) == n - 2

\* bloom::compute(source, threshold, knee): the calls made, the handle returned,
\* and whether the assertion of 284 stopped the call (abort())
bloom_compute(b, source) ==
    IF ~(b.m_width > 0 /\ b.m_height > 0)
    THEN [cmds |-> << <<"enable_scope", {GL_BLEND}>>, <<"glDisable", GL_BLEND>> >>,
          result |-> 0, aborted |-> TRUE]
    ELSE [cmds |->
             << <<"enable_scope", {GL_BLEND}>>, <<"glDisable", GL_BLEND>>,
                \* Prefilter, 287-302
                <<"glBindFramebuffer", bloom_m_fb_render_target>>,
                <<"subscript", "m_tx_downsample", 0, Len(b.m_tx_downsample)>>,
                <<"glFramebufferTexture2D", At(b.m_tx_downsample, 0)>>,
                <<"glClear">>,
                <<"glUseProgram", "prefilter">>,
                <<"glActiveTexture", 0>>,
                <<"glBindTexture", source>>,
                <<"glBindVertexArray", "bloom_m_quad_va">>,
                <<"glDrawArrays">>,
                \* Downsample, 306-323
                <<"glUseProgram", "downsample">> >>
             \o bloom_down(b, 1)
             \o << \* 328-329
                   <<"subscript", "m_tx_upsample", Len(b.m_tx_upsample) - 1, Len(b.m_tx_upsample)>>,
                   <<"glFramebufferTexture2D", At(b.m_tx_upsample, Len(b.m_tx_upsample) - 1)>>,
                   <<"glClear">>,
                   \* Upsample, 333-354
                   <<"glUseProgram", "upsample">> >>
             \o bloom_up(b, up_start(Len(b.m_tx_upsample)))
             \o << <<"subscript", "m_tx_upsample", 0, Len(b.m_tx_upsample)>>,
                   <<"~enable_scope">> >>,
          result |-> At(b.m_tx_upsample, 0), aborted |-> FALSE]

---------------------------------------------------------------------------
(* render, application.cpp 637-765: the OpenGL side                        *)

\* a render_layer that gives s_tx_final_render new storage before it draws
render_layer_reallocating(grid) ==
    << <<"glUseProgram", "strings">>,
       <<"glActiveTexture", 0>>,
       <<"glBindTexture", s_tx_final_render>>,
       <<"glTexImage2D", 1, 1>>,
       <<"glBindTexture", font_m_texture>>,
       <<"glBindVertexArray", "s_va">>,
       <<"glBufferData", grid>>,
       <<"glDrawArrays">> >>

\* render_layer(cells, view_width, view_height), 637-654, cells being grid number grid
render_layer(grid) ==
    << <<"glUseProgram", "strings">>,
       <<"glActiveTexture", 0>>,
       <<"glBindTexture", font_m_texture>>,
       <<"glBindVertexArray", "s_va">>,
       <<"glBufferData", grid>>,
       <<"glDrawArrays">> >>

\* (1.0f - s_depth_layers[i]) * s_blur_str_multiplier, s_blur_str_multiplier = 0.5f
blur_strength(i) == <<100 - s_depth_layers[i], 200>>

\* the loop of 682-711 without the std::swap of 710: every layer is drawn from
\* the same source into the same destination
RECURSIVE render_back_layers_no_swap(_, _, _, _)
render_back_layers_no_swap(i, tx, w, h) ==
    IF i >= s_depth_layers_size - 1 THEN [cmds |-> << >>, tx |-> tx]
    ELSE LET rest == render_back_layers_no_swap(i + 1, tx, w, h)
         IN [cmds |->
                << <<"glBindFramebuffer", s_fb_render_target>>,
                   <<"glFramebufferTexture2D", tx[2]>>,
                   <<"glViewport", w \div s_blur_scale, h \div s_blur_scale>>,
                   <<"glClear">>,
                   <<"glUseProgram", "pass_trough">>,
                   <<"glActiveTexture", 0>>,
                   <<"glBindTexture", tx[1]>>,
                   <<"glBindVertexArray", "s_va_quad">>,
                   <<"glDrawArrays">> >>
                \o render_layer(i)
                \o blur_filter_apply(tx[2], w \div s_blur_scale, h \div s_blur_scale,
                                     blur_strength(i), 1)
                \o rest.cmds,
             tx |-> rest.tx]

\* "Blur all the back layers", 682-711, from layer i on; tx is <<tx_src, tx_dst>>.
\* The calls made and <<tx_src, tx_dst>> after the loop.
RECURSIVE render_back_layers(_, _, _, _)
render_back_layers(i, tx, w, h) ==
    IF i >= s_depth_layers_size - 1 THEN [cmds |-> << >>, tx |-> tx]
    ELSE LET tx_src == tx[1]
             tx_dst == tx[2]
             rest == render_back_layers(i + 1, <<tx_dst, tx_src>>, w, h)
         IN [cmds |->
                << <<"glBindFramebuffer", s_fb_render_target>>,
                   <<"glFramebufferTexture2D", tx_dst>>,
                   <<"glViewport", w \div s_blur_scale, h \div s_blur_scale>>,
                   <<"glClear">>,
                   <<"glUseProgram", "pass_trough">>,
                   <<"glActiveTexture", 0>>,
                   <<"glBindTexture", tx_src>>,
                   <<"glBindVertexArray", "s_va_quad">>,
                   <<"glDrawArrays">> >>
                \o render_layer(i)
                \o blur_filter_apply(tx_dst, w \div s_blur_scale, h \div s_blur_scale,
                                     blur_strength(i), 1)
                \o rest.cmds,
             tx |-> rest.tx]

\* lines 671-765 of render for a window of w x h: the calls made, and whether
\* bloom::compute aborted the process
render_passes(b, w, h) ==
    LET back == render_back_layers(0, <<s_tx_blur0, s_tx_blur1>>, w, h)
        tx_src == back.tx[1]
        bl == bloom_compute(b, s_tx_final_render)
        tx_bloom == bl.result
    IN [cmds |->
           << \* Clear source from previous frame, 674-679
              <<"glBindFramebuffer", s_fb_render_target>>,
              <<"glFramebufferTexture2D", s_tx_blur0>>,
              <<"glClear">> >>
           \o back.cmds
           \o << \* Render background + top layer, 714-734
                 <<"glBindFramebuffer", s_tx_final_render>>,
                 <<"glFramebufferTexture2D", s_tx_final_render>>,
                 <<"glViewport", w, h>>,
                 <<"glClear">>,
                 <<"glUseProgram", "pass_trough">>,
                 <<"glActiveTexture", 0>>,
                 <<"glBindTexture", tx_src>>,
                 <<"glBindVertexArray", "s_va_quad">>,
                 <<"glDrawArrays">> >>
           \o render_layer(s_depth_layers_size - 1)
           \o bl.cmds
           \o (IF bl.aborted THEN << >>
               ELSE << \* Draw to screen, 739-765
                       <<"enable_scope", {GL_BLEND, GL_FRAMEBUFFER_SRGB}>>,
                       <<"glBindFramebuffer", 0>>,
                       <<"glDisable", GL_BLEND>>,
                       <<"glEnable", GL_FRAMEBUFFER_SRGB>>,
                       <<"glViewport", w, h>>,
                       <<"glClear">>,
                       <<"glActiveTexture", 0>>,
                       <<"glBindTexture", s_tx_final_render>>,
                       <<"glActiveTexture", 1>>,
                       <<"glBindTexture", tx_bloom>>,
                       <<"glUseProgram", "hdr">>,
                       <<"glBindVertexArray", "s_va_quad">>,
                       <<"glDrawArrays">>,
                       <<"~enable_scope">> >>),
        aborted |-> bl.aborted]

---------------------------------------------------------------------------
(* resize, application.cpp 794-820: the OpenGL side                        *)

\* the body of the loop of 807-817 over {s_tx_blur0, s_tx_blur1}
resize_blur_texture(tx, w, h) ==
    << <<"glBindTexture", tx>>,
       <<"glTexImage2D", w \div s_blur_scale, h \div s_blur_scale>>,
       <<"glBindFramebuffer", s_fb_render_target>>,
       <<"glFramebufferTexture2D", tx>>,
       <<"glClear">> >>

\* lines 806-819 alone: a resize that leaves s_tx_final_render at its old size
resize_textures_stale_final(texs, b, w, h) ==
    LET bl == bloom_resize(texs, b, w, h)
    IN [cmds |-> resize_blur_texture(s_tx_blur0, w, h)
                 \o resize_blur_texture(s_tx_blur1, w, h)
                 \o bl.cmds,
        b |-> bl.b]

\* lines 804-819, texs being the texture names in use: the calls made and the
\* bloom object afterwards
resize_textures(texs, b, w, h) ==
    LET bl == bloom_resize(texs, b, w, h)
    IN [cmds |-> << <<"glBindTexture", s_tx_final_render>>,
                    <<"glTexImage2D", w, h>> >>
                 \o resize_blur_texture(s_tx_blur0, w, h)
                 \o resize_blur_texture(s_tx_blur1, w, h)
                 \o bl.cmds,
        b |-> bl.b]

---------------------------------------------------------------------------
(* run, application.cpp 933-989: the window, initialize() and the loop     *)

\* The context when initialize() reaches its call of resize (889): GL_BLEND on
\* (827), GL_FRAMEBUFFER_SRGB in its initial state, off; the three framebuffer
\* objects and five textures of the constructors and of 864-881; the texture bound
\* last is s_tx_final_render (882).  strict is whether this context refuses names
\* it has not generated.
initialize_objects(strict) ==
    [generated_names_only |-> strict,
     window |-> InitialWindow, vp |-> InitialWindow,
     fb |-> 0,
     fbs |-> {blur_m_framebuffer, bloom_m_fb_render_target, s_fb_render_target},
     att |-> [f \in {blur_m_framebuffer, bloom_m_fb_render_target, s_fb_render_target} |-> 0],
     texs |-> {font_m_texture, blur_m_ping_pong, s_tx_blur0, s_tx_blur1, s_tx_final_render},
     size |-> << >>,
     caps |-> [c \in Caps |-> c = GL_BLEND],
     active |-> 0,
     bound |-> [u \in 0..1 |-> IF u = 0 THEN s_tx_final_render ELSE 0],
     prog |-> "none", uStrength |-> <<0, 1>>,
     va |-> "s_va_quad", vb_grid |-> -1, scopes |-> << >>,
     log |-> << >>, access |-> << >>, error |-> FALSE]

\* no texture's contents are followed; no call on a filter object is remembered
NoPixels == << >>
NoCall == [call |-> "none"]

\* a bloom object whose m_width and m_height have no initializer and hold 1
bloom_ctor_no_initializer == [m_width |-> 1, m_height |-> 1, m_sizes |-> << >>,
                              m_tx_downsample |-> << >>, m_tx_upsample |-> << >>]

\* a bloom object as its constructor leaves it (m_width and m_height are 0 from
\* their default member initializers until resize stores its arguments)
bloom_ctor == [m_width |-> 0, m_height |-> 0, m_sizes |-> << >>,
               m_tx_downsample |-> << >>, m_tx_upsample |-> << >>]

\* the pool before the first resize: value-initialised strings
empty_pool == [n \in 1..s_falling_strings_count |->
                 [x |-> 0, y |-> 0, speed |-> 0, layer_index |-> 0, length |-> 0]]

\* resize() for a window of sz: strings, textures, bloom
resize(g, b, pool, sz, pos, oob) ==
    LET vh == get_view_size(sz[1], sz[2])[2]
        strings == init_all(pool, s_falling_strings_count, vh, 1, pos, oob)
        tex == resize_textures(g.texs, b, sz[1], sz[2])
    IN [pool |-> strings.pool, pos |-> strings.pos, fault |-> strings.fault,
        g |-> Exec([g EXCEPT !.log = << >>, !.access = << >>, !.window = sz], tex.cmds),
        b |-> tex.b]

\* the process is gone, by terminate(0) or by a signal: pc is how, fault is the
\* undefined operation that killed it, begun the strings its last render had
\* re-run init_falling_string on; nothing else of it is left
Gone(how, f, begun) ==
    /\ pc' = how
    /\ fault' = f
    /\ rand_pos' = 1
    /\ s_falling_strings' = empty_pool
    /\ s_grids' = [l \in DOMAIN s_depth_layers |-> << >>]
    /\ gl' = [initialize_objects(FALSE) EXCEPT !.fbs = {}, !.att = << >>, !.texs = {},
                                               !.bound = [u \in 0..1 |-> 0]]
    /\ s_fx_bloom' = bloom_ctor
    /\ respawned' = begun
    /\ UNCHANGED <<pixels, args>>

\* run() up to the loop: the window and initialize().  The process is at the loop
\* test of 969, or an undefined operation of the first resize() has killed it.
Init ==
    \E strict \in BOOLEAN, pos \in DOMAIN RandStream, oob \in OobDepths :
        \E r \in {resize(initialize_objects(strict), bloom_ctor, empty_pool,
                         InitialWindow, pos, oob)} :
           /\ win = InitialWindow
           /\ prev_win = InitialWindow
           /\ oob_depth = oob
           /\ fault = r.fault
           /\ pixels = NoPixels
           /\ args = NoCall
           /\ \/ /\ r.fault # "mod_zero"
                 /\ pc = "start"
                 /\ rand_pos = r.pos
                 /\ s_falling_strings = r.pool
                 /\ s_grids = [l \in DOMAIN s_depth_layers |-> << >>]
                 /\ gl = r.g
                 /\ s_fx_bloom = r.b
                 /\ respawned = {}
              \/ /\ r.fault # "none"
                 /\ pc = "crashed"
                 /\ rand_pos = 1
                 /\ s_falling_strings = empty_pool
                 /\ s_grids = [l \in DOMAIN s_depth_layers |-> << >>]
                 /\ gl = [initialize_objects(FALSE) EXCEPT !.fbs = {}, !.att = << >>,
                             !.texs = {}, !.bound = [u \in 0..1 |-> 0]]
                 /\ s_fx_bloom = bloom_ctor
                 /\ respawned = {}

\* One turn of the loop (969-986): glfwWindowShouldClose is false, render(dt),
\* glfwSwapBuffers, and glfwPollEvents is entered.
Render(dt) ==
    /\ pc \in {"start", "poll"}
    /\ \E u \in {update_all(s_falling_strings, s_falling_strings_count, dt,
                            win[2] * s_col_count, win[1], rand_pos, oob_depth)},
          r \in {render_passes(s_fx_bloom, win[1], win[2])} :
          \/ /\ u.fault # "mod_zero"
             /\ ~r.aborted
             /\ s_falling_strings' = u.pool
             /\ s_grids' = u.grids
             /\ rand_pos' = u.pos
             /\ respawned' = u.respawned
             /\ fault' = u.fault
             /\ gl' = Exec([gl EXCEPT !.log = << >>, !.access = << >>], r.cmds)
             /\ pc' = "poll"
             /\ UNCHANGED <<win, prev_win, oob_depth, s_fx_bloom, pixels, args>>
          \/ /\ u.fault # "none"
             /\ Gone("crashed", u.fault, u.begun)
             /\ UNCHANGED <<win, prev_win, oob_depth>>
          \/ /\ u.fault # "mod_zero"
             /\ r.aborted
             /\ Gone("crashed", "assert", u.respawned)
             /\ UNCHANGED <<win, prev_win, oob_depth>>

\* on_window_resize during glfwPollEvents (913): the window is sz now
OnWindowResize(sz) ==
    /\ pc = "poll"
    /\ sz # win
    /\ win' = sz
    /\ prev_win' = win
    /\ \E r \in {resize(gl, s_fx_bloom, s_falling_strings, sz, rand_pos, oob_depth)} :
          \/ /\ r.fault # "mod_zero"
             /\ s_falling_strings' = r.pool
             /\ rand_pos' = r.pos
             /\ fault' = r.fault
             /\ gl' = r.g
             /\ s_fx_bloom' = r.b
             /\ respawned' = {}
             /\ UNCHANGED <<pc, oob_depth, s_grids, pixels, args>>
          \/ /\ r.fault # "none"
             /\ Gone("crashed", r.fault, {})
             /\ UNCHANGED oob_depth

\* the user closes the window during glfwPollEvents: glfwWindowShouldClose holds
\* at 969, the loop ends and terminate(0) ends the process
CloseWindow ==
    /\ pc = "poll"
    /\ Gone("exited", "none", {})
    /\ UNCHANGED <<win, prev_win, oob_depth>>

Next ==
    \/ \E dt \in Dts : Render(dt)
    \/ \E sz \in WindowSizes : OnWindowResize(sz)
    \/ CloseWindow

Spec == Init /\ [][Next]_vars

---------------------------------------------------------------------------
(* The falling strings: C1, C2                                             *)

\* the process is running: at the loop test or inside glfwPollEvents
Running == pc \in {"start", "poll"}

\* C1: after initialization and after any sequence of updates, resizes and
\* respawns, every falling string has its length and its speed within their
\* configured [min, max] ranges and a layer_index that is a valid index into
\* s_depth_layers, whatever rand() returns, RAND_MAX included.
C1_StringsWithinRanges ==
    Running =>
        \A n \in DOMAIN s_falling_strings :
            /\ s_falling_strings[n].length >= s_falling_string_min_length
            /\ s_falling_strings[n].length <= s_falling_string_max_length
            /\ s_falling_strings[n].speed >= s_falling_string_min_speed
            /\ s_falling_strings[n].speed <= s_falling_string_max_speed
            /\ s_falling_strings[n].layer_index < s_depth_layers_size

\* the trailing row of string s is past the visible height of a w x h window:
\* min_y * cell_size >= view_height, with min_y = round(y) - length + 1,
\* cell_size = view_width / s_col_count * depth, view_width = s_col_count and
\* view_height = h / w * view_width; depth in hundredths
TrailingEdgePast(s, depth, w, h) ==
    (round(s.y) - s.length + 1) * depth * w >= h * s_col_count * 100

\* C2: every update_falling_string call on a string whose trailing row is past
\* the visible height at entry re-runs init_falling_string on it in that same
\* call, and no call on a string whose trailing row is not past it does.  A call
\* is made on every string of the pool by every frame the loop starts.
C2_RespawnOnNextUpdate ==
    [][(Running /\ win' = win /\ pc' # "exited") =>
          \A n \in DOMAIN s_falling_strings :
             TrailingEdgePast(s_falling_strings[n],
                              depth_at(s_falling_strings[n].layer_index, oob_depth),
                              win[1], win[2])
             <=> (n \in respawned')]_vars

---------------------------------------------------------------------------
(* The frame compositor: C3, C6, C10                                       *)

\* the size of the storage of texture tex; <<0, 0>> where it has none
SizeOf(tex) == IF tex \in DOMAIN gl.size THEN gl.size[tex] ELSE <<0, 0>>

\* the last render or resize handler drew a frame: the log holds a draw call
FrameDrawn == \E k \in DOMAIN gl.log : gl.log[k].op = "draw"

\* C3: after any sequence of window resizes, at the start of every frame the
\* final-render texture has exactly the window's size (w, h), both blur textures
\* have (w / s_blur_scale, h / s_blur_scale) and level 0 of both bloom chains has
\* (w, h): no texture keeps the size of an earlier window.
C3_TexturesMatchWindow ==
    Running =>
        /\ SizeOf(s_tx_final_render) = win
        /\ SizeOf(s_tx_blur0) = <<win[1] \div s_blur_scale, win[2] \div s_blur_scale>>
        /\ SizeOf(s_tx_blur1) = <<win[1] \div s_blur_scale, win[2] \div s_blur_scale>>
        /\ s_fx_bloom.m_width = win[1]
        /\ s_fx_bloom.m_height = win[2]
        /\ SizeAt(s_fx_bloom.m_sizes, 0) = win
        /\ SizeOf(At(s_fx_bloom.m_tx_downsample, 0)) = win
        /\ SizeOf(At(s_fx_bloom.m_tx_upsample, 0)) = win

\* the window went from 1280x768 to 800x600 and back, and a frame has been drawn
\* since
C3_RoundTrip ==
    /\ pc = "poll"
    /\ prev_win = <<800, 600>>
    /\ win = <<1280, 768>>
    /\ FrameDrawn
    /\ SizeOf(s_tx_final_render) = <<1280, 768>>

\* what a record of the log did, as a pass of the frame: a clear of a texture, a
\* copy of a texture into another, a layer's grid drawn on a texture, one blur
\* pass, a draw of bloom::compute (the prefilter with what it samples), the
\* tone-map with what it samples and the framebuffer it draws to
Tag(r) ==
    IF r.fb = bloom_m_fb_render_target
    THEN IF r.prog = "prefilter" THEN <<"bloom of", r.src[1]>> ELSE <<"bloom">>
    ELSE IF r.op = "clear" THEN <<"clear", r.dst>>
    ELSE IF r.prog = "pass_trough" THEN <<"copy", r.src[1], r.dst>>
    ELSE IF r.prog = "strings" /\ r.va = "s_va" THEN <<"layer", r.grid, r.dst>>
    ELSE IF r.prog \in {"hblur", "vblur"} THEN <<r.prog, r.src[1], r.dst>>
    ELSE IF r.prog = "hdr" THEN <<"tone-map", r.src, r.fb>>
    ELSE <<"other">>

\* the passes of the last handler, in the order they ran
Passes ==
    LET drawn == SelectSeq(gl.log, LAMBDA r : r.op # "alloc")
    IN [k \in DOMAIN drawn |-> Tag(drawn[k])]

\* background layers i .. N-2 in increasing order: copy the source into the
\* destination, draw layer i on top, blur the destination (horizontally into the
\* ping-pong texture, vertically back), swap source and destination
RECURSIVE BackgroundPasses(_, _, _)
BackgroundPasses(i, source, destination) ==
    IF i > s_depth_layers_size - 2 THEN << >>
    ELSE << <<"clear", destination>>,
            <<"copy", source, destination>>,
            <<"layer", i, destination>>,
            <<"clear", blur_m_ping_pong>>,
            <<"hblur", destination, blur_m_ping_pong>>,
            <<"clear", destination>>,
            <<"vblur", blur_m_ping_pong, destination>> >>
         \o BackgroundPasses(i + 1, destination, source)

\* where the accumulated background is after the N-1 swaps
Background == IF (s_depth_layers_size - 1) % 2 = 0 THEN s_tx_blur0 ELSE s_tx_blur1

\* the frame of the claim, for a bloom chain of n levels: bloom::compute clears and
\* draws level 0, draws the n - 1 lower levels, clears the last level of the
\* upsample chain and draws the n - 1 upper ones, each draw after a clear
FramePasses(n) ==
    << <<"clear", s_tx_blur0>> >>
    \o BackgroundPasses(0, s_tx_blur0, s_tx_blur1)
    \o << <<"clear", s_tx_final_render>>,
          <<"copy", Background, s_tx_final_render>>,
          <<"layer", s_depth_layers_size - 1, s_tx_final_render>> >>
    \o << <<"bloom">>, <<"bloom of", s_tx_final_render>> >>
    \o [k \in 1..((4 * n) - 3) |-> <<"bloom">>]
    \o << <<"clear", 0>>,
          <<"tone-map", <<s_tx_final_render, At(s_fx_bloom.m_tx_upsample, 0)>>, 0>> >>

\* C6: every frame runs its passes in this order: clear the source; for each
\* background layer 0 .. N-2 in increasing order copy, draw the layer, blur, swap;
\* draw the background and the foreground layer into the final-render texture at
\* the full window resolution; compute bloom from the final-render texture;
\* tone-map to the default framebuffer.  Nothing is skipped, repeated or
\* reordered.
C6_PassOrder ==
    (pc = "poll" /\ FrameDrawn) =>
        /\ Passes = FramePasses(Len(s_fx_bloom.m_sizes))
        /\ \A k \in DOMAIN gl.log :
              (gl.log[k].op # "alloc" /\ gl.log[k].dst = s_tx_final_render)
              => (gl.log[k].vp = win /\ gl.log[k].dstsize = win)

\* a frame drawn in the 800x600 window, through to the tone-map
C6_FrameComposited ==
    /\ pc = "poll"
    /\ win = <<800, 600>>
    /\ \E k \in DOMAIN gl.log : gl.log[k].op = "draw" /\ gl.log[k].prog = "hdr"
    /\ Len(Passes) = Len(FramePasses(Len(s_fx_bloom.m_sizes)))

\* the records of the tone-map pass of 739-765: what is drawn to the default
\* framebuffer
ToneMap(r) == r.fb = 0

\* C10: GL_FRAMEBUFFER_SRGB is enabled only while the tone-map pass draws to the
\* default framebuffer: every clear and draw of the layer, copy, blur and bloom
\* passes runs with it disabled, the tone-map draw runs with it enabled, and it is
\* disabled again whenever a frame starts.
C10_SrgbOnlyInToneMap ==
    Running =>
        /\ ~glIsEnabled(gl, GL_FRAMEBUFFER_SRGB)
        /\ \A k \in DOMAIN gl.log :
              /\ gl.log[k].srgb => ToneMap(gl.log[k])
              /\ (gl.log[k].op = "draw" /\ gl.log[k].prog = "hdr")
                 => (gl.log[k].srgb /\ ToneMap(gl.log[k]))

\* a frame whose tone-map draw ran with GL_FRAMEBUFFER_SRGB enabled has ended, and
\* the capability is disabled at the start of the next
C10_ToneMapDrawn ==
    /\ pc = "poll"
    /\ ~glIsEnabled(gl, GL_FRAMEBUFFER_SRGB)
    /\ \E k \in DOMAIN gl.log :
          gl.log[k].op = "draw" /\ gl.log[k].prog = "hdr" /\ gl.log[k].srgb
    /\ \E k \in DOMAIN gl.log :
          gl.log[k].op = "draw" /\ gl.log[k].prog = "vblur" /\ ~gl.log[k].srgb

---------------------------------------------------------------------------
(* The bloom engine on its own: SpecBloom.  A bloom object in the context  *)
(* initialize() builds, resized to every size of BloomSizes in any order   *)
(* and computed from s_tx_final_render.                                    *)

MaxDim == 5
BloomSizes == {<<w, h>> : w \in 1..MaxDim, h \in 1..MaxDim}

\* the application's own state where only a filter object runs
AppIdle ==
    /\ win = InitialWindow
    /\ prev_win = InitialWindow
    /\ rand_pos = 1
    /\ oob_depth = 15
    /\ fault = "none"
    /\ s_falling_strings = empty_pool
    /\ s_grids = [l \in DOMAIN s_depth_layers |-> << >>]
    /\ respawned = {}

AppUnchanged ==
    UNCHANGED <<win, prev_win, rand_pos, oob_depth, fault, s_falling_strings, s_grids, respawned>>

\* std::make_unique<bloom>() of initialize(), before any resize
BloomInit ==
    /\ AppIdle
    /\ pc = "bloom_new"
    /\ gl = initialize_objects(FALSE)
    /\ s_fx_bloom = bloom_ctor
    /\ pixels = NoPixels
    /\ args = NoCall

\* s_fx_bloom->resize(width, height); before is the length of the chains at the call
\* (again, of a compute: whether the call before it was a compute too)
BloomResize(width, height) ==
    /\ pc \in {"bloom_new", "bloom_resized", "bloom_computed"}
    /\ \E r \in {bloom_resize(gl.texs, s_fx_bloom, width, height)} :
          /\ gl' = Exec([gl EXCEPT !.log = << >>, !.access = << >>], r.cmds)
          /\ s_fx_bloom' = r.b
    /\ args' = [call |-> "bloom::resize", width |-> width, height |-> height,
                before |-> Len(s_fx_bloom.m_tx_downsample), result |-> 0,
                again |-> FALSE]
    /\ pc' = "bloom_resized"
    /\ UNCHANGED pixels
    /\ AppUnchanged

\* s_fx_bloom->compute(s_tx_final_render, ...) as render calls it at 736: after a
\* resize, with the viewport of 719, which is the size the chain was built for
BloomCompute ==
    /\ pc \in {"bloom_resized", "bloom_computed"}
    /\ \E c \in {bloom_compute(s_fx_bloom, s_tx_final_render)} :
          \/ /\ ~c.aborted
             /\ gl' = Exec([gl EXCEPT !.log = << >>, !.access = << >>,
                                      !.vp = <<s_fx_bloom.m_width, s_fx_bloom.m_height>>],
                           c.cmds)
             /\ args' = [args EXCEPT !.call = "bloom::compute", !.result = c.result,
                                     !.again = (args.call = "bloom::compute")]
             /\ pc' = "bloom_computed"
             /\ UNCHANGED <<s_fx_bloom, pixels>>
             /\ AppUnchanged
          \/ /\ c.aborted
             /\ Gone("crashed", "assert", {})
             /\ UNCHANGED <<win, prev_win, oob_depth>>

BloomNext ==
    \/ \E sz \in BloomSizes : BloomResize(sz[1], sz[2])
    \/ BloomCompute

SpecBloom == BloomInit /\ [][BloomNext]_vars

---------------------------------------------------------------------------
(* The bloom engine: C4, C5, C8                                            *)

\* C4: for every w >= 1 and h >= 1, after bloom::resize(w, h), bloom::compute
\* subscripts m_sizes, m_tx_downsample and m_tx_upsample only at positions in
\* [0, chain length): neither the downsample loop nor the upsample loop, which
\* also reads level i + 1, goes out of bounds.
C4_BloomIndicesInBounds ==
    \A k \in DOMAIN gl.access :
        /\ gl.access[k][1] \in {"m_sizes", "m_tx_downsample", "m_tx_upsample"}
        /\ gl.access[k][2] >= 0
        /\ gl.access[k][2] < gl.access[k][3]
        /\ gl.access[k][3] = Len(s_fx_bloom.m_sizes)

\* compute has run on the chain of a 1x1 resize: one level, and the upsample loop
\* starts at index -1
C4_ComputedOneLevel ==
    /\ pc = "bloom_computed"
    /\ s_fx_bloom.m_width = 1
    /\ s_fx_bloom.m_height = 1
    /\ Len(s_fx_bloom.m_tx_upsample) = 1
    /\ up_start(Len(s_fx_bloom.m_tx_upsample)) = -1
    /\ Len(gl.access) > 0

RECURSIVE Log2Floor(_)
Log2Floor(n) == IF n < 2 THEN 0 ELSE 1 + Log2Floor(n \div 2)

RECURSIVE Pow2(_)
Pow2(i) == IF i = 0 THEN 1 ELSE 2 * Pow2(i - 1)

Min(a, b) == IF a <= b THEN a ELSE b

\* the textures initialize() creates outside the bloom object
ApplicationTextures ==
    {font_m_texture, blur_m_ping_pong, s_tx_blur0, s_tx_blur1, s_tx_final_render}

\* C5: after bloom::resize(w, h) with w, h >= 1, m_sizes, m_tx_downsample and
\* m_tx_upsample all have length floor(log2(min(w, h))) + 1, entry i of m_sizes is
\* (w div 2^i, h div 2^i) with both components >= 1, and a later resize replaces
\* the previous chain: the vectors hold the new chain alone, each level a texture
\* of its own with storage of the level's size, and the old textures are deleted.
C5_ChainOfResize ==
    (pc = "bloom_resized") =>
        LET n == Log2Floor(Min(args.width, args.height)) + 1
        IN /\ Len(s_fx_bloom.m_sizes) = n
           /\ Len(s_fx_bloom.m_tx_downsample) = n
           /\ Len(s_fx_bloom.m_tx_upsample) = n
           /\ \A i \in 0..(n - 1) :
                 /\ s_fx_bloom.m_sizes[i + 1]
                      = <<args.width \div Pow2(i), args.height \div Pow2(i)>>
                 /\ s_fx_bloom.m_sizes[i + 1][1] >= 1
                 /\ s_fx_bloom.m_sizes[i + 1][2] >= 1
                 /\ SizeOf(s_fx_bloom.m_tx_downsample[i + 1]) = s_fx_bloom.m_sizes[i + 1]
                 /\ SizeOf(s_fx_bloom.m_tx_upsample[i + 1]) = s_fx_bloom.m_sizes[i + 1]
           /\ Cardinality(SeqRange(s_fx_bloom.m_tx_downsample)
                          \cup SeqRange(s_fx_bloom.m_tx_upsample)) = 2 * n
           /\ gl.texs = ApplicationTextures \cup SeqRange(s_fx_bloom.m_tx_downsample)
                                            \cup SeqRange(s_fx_bloom.m_tx_upsample)

\* a resize to 3x5 of an object that already had a chain
C5_SecondResize ==
    /\ pc = "bloom_resized"
    /\ args.before > 0
    /\ args.width = 3
    /\ args.height = 5
    /\ Len(s_fx_bloom.m_sizes) = 2

\* What a texture holds, as a term.  Before the call a texture of the chains holds
\* what earlier calls left, <<"left", junk, texture>>; any other texture holds
\* its contents.
Held(c, junk, chain, t) ==
    IF t \in DOMAIN c THEN c[t]
    ELSE IF t \in chain THEN <<"left", junk, t>>
    ELSE <<"contents", t>>

\* what record r leaves in the texture it draws into: glTexImage2D undefined
\* storage, glClear the clear colour everywhere, a draw of the full-screen quad
\* the program's output from what its samplers hold, everywhere the viewport
\* covers, blended with what was there where GL_BLEND is enabled
Shaded(c, junk, chain, r) ==
    IF r.op = "alloc" THEN <<"undefined", junk, r.dst>>
    ELSE IF r.op = "clear" THEN <<"cleared">>
    ELSE LET out == <<r.prog, [k \in DOMAIN r.src |-> Held(c, junk, chain, r.src[k])]>>
         IN IF r.blend THEN <<"blended", Held(c, junk, chain, r.dst), out>>
            ELSE IF r.vp[1] >= r.dstsize[1] /\ r.vp[2] >= r.dstsize[2] THEN out
            ELSE <<"within", r.vp, Held(c, junk, chain, r.dst), out>>

\* what the textures written by the first k records of log hold
RECURSIVE Contents(_, _, _, _)
Contents(log, k, junk, chain) ==
    IF k = 0 THEN << >>
    ELSE Val({[t \in DOMAIN c \cup {log[k].dst} |->
                  IF t = log[k].dst THEN Shaded(c, junk, chain, log[k]) ELSE c[t]] :
              c \in {Contents(log, k - 1, junk, chain)}})

\* the textures of both chains
Chain == SeqRange(s_fx_bloom.m_tx_downsample) \cup SeqRange(s_fx_bloom.m_tx_upsample)

\* what compute returned, had earlier calls left junk in the chains
Result(junk) == Held(Contents(gl.log, Len(gl.log), junk, Chain), junk, Chain, args.result)

\* C8: bloom::compute carries no hidden state across calls: every level of the
\* chains it samples has been completely rewritten (cleared, then drawn if it is
\* drawn at all) earlier in the same call, so what it returns is the same
\* whatever earlier calls left in the chains.
C8_NoHiddenState ==
    (pc = "bloom_computed") =>
        /\ \A k \in DOMAIN gl.log :
              gl.log[k].op = "draw" =>
                 \A j \in DOMAIN gl.log[k].src :
                    gl.log[k].src[j] \in Chain =>
                       \E c \in 1..(k - 1) :
                          /\ gl.log[c].op = "clear"
                          /\ gl.log[c].dst = gl.log[k].src[j]
                          /\ \A d \in (c + 1)..(k - 1) :
                                gl.log[d].dst = gl.log[k].src[j] => gl.log[d].op = "draw"
        /\ Result("A") = Result("B")

\* compute has run on a chain of three levels that an earlier compute had used
C8_ComputedTwice ==
    /\ pc = "bloom_computed"
    /\ args.again
    /\ Len(s_fx_bloom.m_tx_upsample) = 3
    /\ \E k \in DOMAIN gl.log : gl.log[k].op = "draw" /\ gl.log[k].prog = "upsample"
    /\ Result("A") = Result("B")

---------------------------------------------------------------------------
(* The blur shader, filter.cpp 26-59, on images.  An image is its size and *)
(* a texel for every <<x, y>>; a texel is [rgb, a], the three colour       *)
(* channels being treated alike by the shader and kept as one number, in   *)
(* units of 1 / One so that every pass divides exactly; a in hundredths.   *)

MaxIter == 2
MaxPixels == 4

RECURSIVE Pow8(_)
Pow8(n) == IF n = 0 THEN 1 ELSE 8 * Pow8(n - 1)

\* the colour 1.0
One == Pow8(2 * MaxIter)

Coords(size) == (0..(size[1] - 1)) \X (0..(size[2] - 1))

Clamp(v, lo, hi) == IF v < lo THEN lo ELSE IF v > hi THEN hi ELSE v

\* texture(uTexture, fUv + offset * step) at the centre of texel <<x, y>>, the
\* texture being GL_CLAMP_TO_EDGE (149-150; application.cpp 871-879)
texture(img, x, y) ==
    img.px[<<Clamp(x, 0, img.size[1] - 1), Clamp(y, 0, img.size[2] - 1)>>]

\* main() with the arguments of mix exchanged: mix(color, original, uStrength)
s_fs_blur_mix_swapped(img, direction, strength) ==
    [size |-> img.size,
     px |-> Table([c \in Coords(img.size) |->
               LET dx == IF direction = "HORIZONTAL" THEN 1 ELSE 0
                   dy == IF direction = "VERTICAL" THEN 1 ELSE 0
                   color4 == texture(img, c[1] - dx, c[2] - dy).rgb
                             + (2 * texture(img, c[1], c[2]).rgb)
                             + texture(img, c[1] + dx, c[2] + dy).rgb
               IN [rgb |-> ((color4 * (strength[2] - strength[1]))
                            + (4 * texture(img, c[1], c[2]).rgb * strength[1]))
                           \div (4 * strength[2]),
                   a |-> 100]])]

\* main() of s_fs_blur for every fragment of a quad that covers an image of the
\* size of img: color is the KERNEL-weighted sum of three texels (color4 is four
\* times it), oColor = vec4(mix(texture(uTexture, fUv).rgb, color, uStrength), 1.0),
\* uStrength being strength[1] / strength[2]
s_fs_blur(img, direction, strength) ==
    [size |-> img.size,
     px |-> Table([c \in Coords(img.size) |->
               LET dx == IF direction = "HORIZONTAL" THEN 1 ELSE 0
                   dy == IF direction = "VERTICAL" THEN 1 ELSE 0
                   color4 == texture(img, c[1] - dx, c[2] - dy).rgb
                             + (2 * texture(img, c[1], c[2]).rgb)
                             + texture(img, c[1] + dx, c[2] + dy).rgb
               IN [rgb |-> ((4 * texture(img, c[1], c[2]).rgb * (strength[2] - strength[1]))
                            + (color4 * strength[1]))
                           \div (4 * strength[2]),
                   a |-> 100]])]

\* an image of size whose every texel is t
Filled(size, t) == [size |-> size, px |-> [c \in Coords(size) |-> t]]

\* what record r of the log leaves in the texture it writes: glTexImage2D with a
\* null pointer storage of undefined contents, glClear the colour of
\* glClearColor(0, 0, 0, 1), a draw with m_prg_hblur or m_prg_vblur the shader's
\* output
Painted(px, r) ==
    IF r.op = "alloc" THEN Filled(r.dstsize, [rgb |-> -1, a |-> -1])
    ELSE IF r.op = "clear" THEN Filled(r.dstsize, [rgb |-> 0, a |-> 100])
    ELSE IF r.prog = "hblur" THEN s_fs_blur(px[r.src[1]], "HORIZONTAL", r.strength)
    ELSE IF r.prog = "vblur" THEN s_fs_blur(px[r.src[1]], "VERTICAL", r.strength)
    ELSE px[r.dst]

\* the images after the first k records of log
RECURSIVE PaintedBy(_, _, _)
PaintedBy(px, log, k) ==
    IF k = 0 THEN px
    ELSE Val({[p EXCEPT ![log[k].dst] = Painted(p, log[k])] :
              p \in {PaintedBy(px, log, k - 1)}})

---------------------------------------------------------------------------
(* The blur filter on its own: SpecBlur.  render's call of 708 with any    *)
(* strength of BlurStrengths and any number of iterations up to MaxIter,   *)
(* on a target holding any image of BlurImages.                            *)

BlurSizes == {sz \in (1..MaxPixels) \X (1..MaxPixels) : sz[1] * sz[2] <= MaxPixels}
Texels == {[rgb |-> 0, a |-> 100], [rgb |-> One, a |-> 100], [rgb |-> One, a |-> 75]}
BlurImages(size) == {[size |-> size, px |-> f] : f \in [Coords(size) -> Texels]}
BlurStrengths == {<<0, 2>>, <<1, 2>>, <<2, 2>>}

\* the target of the call: tx_dst of the first turn of the loop of 683
BlurTarget == s_tx_blur1

\* what the ping-pong texture can hold at a call: no storage, as the constructor
\* leaves it, or what an earlier call left
PingPongs(size) == {Filled(<<0, 0>>, [rgb |-> -1, a |-> -1]),
                    Filled(size, [rgb |-> One, a |-> 100])}

\* The context and the images when render reaches 708: the target has storage of
\* some size holding some image, the viewport is the target's size (690), the
\* framebuffer bound is s_fb_render_target with the target attached (686-687),
\* GL_BLEND is enabled (827).
BlurInit ==
    /\ AppIdle
    /\ pc = "blur_ready"
    /\ s_fx_bloom = bloom_ctor
    /\ args = NoCall
    /\ \E size \in BlurSizes :
          \E img \in BlurImages(size), ping_pong \in PingPongs(size) :
             /\ gl = [initialize_objects(FALSE) EXCEPT
                         !.size = (BlurTarget :> size) @@ (blur_m_ping_pong :> ping_pong.size),
                         !.vp = size, !.fb = s_fb_render_target,
                         !.att = [@ EXCEPT ![s_fb_render_target] = BlurTarget]]
             /\ pixels = (BlurTarget :> img) @@ (blur_m_ping_pong :> ping_pong)

\* s_blur_filter->apply(target, width, height, strength, iterations), width and
\* height being the target's size; entry is what the target held at the call
BlurApply(strength, iterations) ==
    /\ pc = "blur_ready"
    /\ \E g \in {Exec([gl EXCEPT !.log = << >>, !.access = << >>],
                      blur_filter_apply(BlurTarget, gl.size[BlurTarget][1],
                                        gl.size[BlurTarget][2], strength, iterations))} :
          /\ gl' = g
          /\ pixels' = PaintedBy(pixels, g.log, Len(g.log))
    /\ args' = [call |-> "blur_filter::apply", target |-> BlurTarget,
                width |-> gl.size[BlurTarget][1], height |-> gl.size[BlurTarget][2],
                strength |-> strength, iterations |-> iterations,
                entry |-> pixels[BlurTarget]]
    /\ pc' = "blur_applied"
    /\ UNCHANGED s_fx_bloom
    /\ AppUnchanged

BlurNext ==
    \E strength \in BlurStrengths, iterations \in 0..MaxIter : BlurApply(strength, iterations)

SpecBlur == BlurInit /\ [][BlurNext]_vars

---------------------------------------------------------------------------
(* The blur filter: C7, C9                                                 *)

\* the draw calls of the last call, in order
BlurDraws == SelectSeq(gl.log, LAMBDA r : r.op = "draw")

\* C7: for any iterations >= 1, blur_filter::apply runs per iteration a horizontal
\* pass that reads target and writes the ping-pong texture, then a vertical pass
\* that reads the ping-pong texture and writes target; the last pass writes
\* target, which on return holds the vertical pass's output at the (width, height)
\* passed in; with iterations = 0 no pass runs and target is left untouched.
C7_BlurPasses ==
    (pc = "blur_applied") =>
        /\ Len(BlurDraws) = 2 * args.iterations
        /\ \A k \in DOMAIN BlurDraws :
              /\ BlurDraws[k].prog = IF k % 2 = 1 THEN "hblur" ELSE "vblur"
              /\ BlurDraws[k].src = IF k % 2 = 1 THEN <<args.target>> ELSE <<blur_m_ping_pong>>
              /\ BlurDraws[k].dst = IF k % 2 = 1 THEN blur_m_ping_pong ELSE args.target
              /\ BlurDraws[k].dstsize = <<args.width, args.height>>
              /\ BlurDraws[k].vp = <<args.width, args.height>>
              /\ ~BlurDraws[k].blend
        /\ args.iterations >= 1 =>
              /\ BlurDraws[Len(BlurDraws)].dst = args.target
              /\ SizeOf(args.target) = <<args.width, args.height>>
              /\ pixels[args.target]
                   = s_fs_blur(pixels[blur_m_ping_pong], "VERTICAL", args.strength)
              /\ \A c \in Coords(<<args.width, args.height>>) :
                    pixels[args.target].px[c].rgb >= 0
        /\ args.iterations = 0 =>
              /\ gl.log = << >>
              /\ pixels[args.target] = args.entry
              /\ SizeOf(args.target) = args.entry.size

\* two iterations have run on a 2x2 target
C7_TwoIterations ==
    /\ pc = "blur_applied"
    /\ args.iterations = 2
    /\ args.width = 2
    /\ args.height = 2
    /\ Len(BlurDraws) = 4
    /\ BlurDraws[4].dst = args.target

\* the 0.25 / 0.5 / 0.25 filter along <<dx, dy>>, edge texels repeated
Filtered(img, dx, dy) ==
    Table([c \in Coords(img.size) |->
             (texture(img, c[1] - dx, c[2] - dy).rgb
              + (2 * texture(img, c[1], c[2]).rgb)
              + texture(img, c[1] + dx, c[2] + dy).rgb) \div 4])

\* the colours of img filtered n times horizontally then vertically
RECURSIVE FilteredTimes(_, _)
FilteredTimes(rgb, n) ==
    IF n = 0 THEN rgb
    ELSE Val({FilteredTimes(v, n - 1) :
                v \in {Filtered([size |-> args.entry.size,
                                 px |-> [c \in Coords(args.entry.size) |-> [rgb |-> h[c]]]], 0, 1) :
                       h \in {Filtered([size |-> args.entry.size,
                                        px |-> [c \in Coords(args.entry.size) |-> [rgb |-> rgb[c]]]],
                                       1, 0)}}})

\* C9: blur_filter::apply with strength = 0 leaves the colour (rgb) of every pixel
\* of target equal to its colour on entry, for any iterations; with strength = 1
\* each pass outputs exactly the 0.25 / 0.5 / 0.25 filtered value.  (The alpha the
\* shader writes is 1.0 whatever the strength.)
C9_StrengthZeroAndOne ==
    (pc = "blur_applied") =>
        /\ args.strength = <<0, 2>> =>
              \A c \in Coords(args.entry.size) :
                 pixels[args.target].px[c].rgb = args.entry.px[c].rgb
        /\ args.strength = <<2, 2>> =>
              \A c \in Coords(args.entry.size) :
                 pixels[args.target].px[c].rgb
                   = FilteredTimes([d \in Coords(args.entry.size) |-> args.entry.px[d].rgb],
                                   args.iterations)[c]

\* strength 0, two iterations, on a target whose texels differ
C9_StrengthZeroApplied ==
    /\ pc = "blur_applied"
    /\ args.strength = <<0, 2>>
    /\ args.iterations = 2
    /\ \E c, d \in Coords(args.entry.size) : args.entry.px[c].rgb # args.entry.px[d].rgb
    /\ \A c \in Coords(args.entry.size) :
          pixels[args.target].px[c].rgb = args.entry.px[c].rgb

---------------------------------------------------------------------------
(* enable_scope on its own: SpecScope.  Scopes over any bits are nested up *)
(* to MaxScopes deep in a context whose capabilities start in any state;   *)
(* between constructions and destructions the capabilities are enabled and *)
(* disabled at will, and the two filters are called.                       *)

MaxScopes == 2

\* the sets of bits a scope is constructed over (filter.cpp 175, 280;
\* application.cpp 741)
ScopeBits == {{GL_BLEND}, {GL_FRAMEBUFFER_SRGB}, {GL_BLEND, GL_FRAMEBUFFER_SRGB}}

\* The context of initialize() with a 2x2 target for the blur filter and a bloom
\* object resized to 2x2, the capabilities in any state.  args remembers, for
\* every scope alive, the capabilities at its construction (entered), and the
\* bits the last destructor changed (restored).
ScopeInit ==
    /\ AppIdle
    /\ pc = "scope"
    /\ pixels = NoPixels
    /\ args = [call |-> "none", entered |-> << >>, restored |-> {}]
    /\ \E caps \in [Caps -> BOOLEAN] :
          \E r \in {bloom_resize(initialize_objects(FALSE).texs, bloom_ctor, 2, 2)} :
             /\ s_fx_bloom = r.b
             /\ gl = [Exec([initialize_objects(FALSE) EXCEPT
                               !.size = (BlurTarget :> <<2, 2>>), !.vp = <<2, 2>>], r.cmds)
                      EXCEPT !.caps = caps, !.log = << >>]

\* enable_scope scope(bits)
ScopeEnter(bits) ==
    /\ pc = "scope"
    /\ Len(gl.scopes) < MaxScopes
    /\ gl' = enable_scope([gl EXCEPT !.log = << >>, !.access = << >>], bits)
    /\ args' = [call |-> "enable_scope", entered |-> Append(args.entered, gl.caps),
                restored |-> {}]
    /\ UNCHANGED <<pc, s_fx_bloom, pixels>>
    /\ AppUnchanged

\* glEnable(cap) or glDisable(cap)
ScopeSet(cap, on) ==
    /\ pc = "scope"
    /\ gl' = IF on THEN glEnable([gl EXCEPT !.log = << >>, !.access = << >>], cap)
                   ELSE glDisable([gl EXCEPT !.log = << >>, !.access = << >>], cap)
    /\ args' = [args EXCEPT !.call = "glEnable", !.restored = {}]
    /\ UNCHANGED <<pc, s_fx_bloom, pixels>>
    /\ AppUnchanged

\* the innermost scope alive goes out of scope
ScopeExit ==
    /\ pc = "scope"
    /\ Len(gl.scopes) > 0
    /\ \E g \in {enable_scope_dtor([gl EXCEPT !.log = << >>, !.access = << >>])} :
          /\ gl' = g
          /\ args' = [call |-> "~enable_scope",
                      entered |-> SubSeq(args.entered, 1, Len(args.entered) - 1),
                      restored |-> {c \in Caps : g.caps[c] # gl.caps[c]}]
    /\ UNCHANGED <<pc, s_fx_bloom, pixels>>
    /\ AppUnchanged

\* s_blur_filter->apply(target, 2, 2, 0.5, iterations)
ScopeBlur(iterations) ==
    /\ pc = "scope"
    /\ gl' = Exec([gl EXCEPT !.log = << >>, !.access = << >>],
                  blur_filter_apply(BlurTarget, 2, 2, <<1, 2>>, iterations))
    /\ args' = [args EXCEPT !.call = "blur_filter::apply", !.restored = {}]
    /\ UNCHANGED <<pc, s_fx_bloom, pixels>>
    /\ AppUnchanged

\* s_fx_bloom->compute(s_tx_final_render, ...)
ScopeBloom ==
    /\ pc = "scope"
    /\ \E c \in {bloom_compute(s_fx_bloom, s_tx_final_render)} :
          /\ ~c.aborted
          /\ gl' = Exec([gl EXCEPT !.log = << >>, !.access = << >>], c.cmds)
    /\ args' = [args EXCEPT !.call = "bloom::compute", !.restored = {}]
    /\ UNCHANGED <<pc, s_fx_bloom, pixels>>
    /\ AppUnchanged

ScopeNext ==
    \/ \E bits \in ScopeBits : ScopeEnter(bits)
    \/ \E cap \in Caps, on \in BOOLEAN : ScopeSet(cap, on)
    \/ ScopeExit
    \/ \E iterations \in 0..1 : ScopeBlur(iterations)
    \/ ScopeBloom

SpecScope == ScopeInit /\ [][ScopeNext]_vars

\* C11: blur_filter::apply and bloom::compute run all of their passes with
\* GL_BLEND disabled and return with GL_BLEND in the state it had on entry; when
\* an enable_scope is destroyed each of its bits is back in the state it had when
\* the scope was constructed, whatever was enabled or disabled inside, for nested
\* scopes too.
C11_ScopedBits ==
    [][/\ args'.call = "~enable_scope" =>
             \A bit \in DOMAIN gl.scopes[Len(gl.scopes)] :
                gl'.caps[bit] = args.entered[Len(args.entered)][bit]
       /\ args'.call \in {"blur_filter::apply", "bloom::compute"} =>
             /\ gl'.caps = gl.caps
             /\ gl'.scopes = gl.scopes
             /\ \A k \in DOMAIN gl'.log :
                   gl'.log[k].op \in {"clear", "draw"} => ~gl'.log[k].blend]_vars

\* an inner scope has been destroyed while an outer one is alive, and the
\* destructor had a bit to put back
C11_InnerScopeRestored ==
    /\ pc = "scope"
    /\ args.call = "~enable_scope"
    /\ args.restored # {}
    /\ Len(gl.scopes) >= 1

---------------------------------------------------------------------------
(* run() from its first line: SpecRun.  The launch configuration, what     *)
(* glfwInit, glfwCreateWindow, the shader compiler and the linker answer,  *)
(* the clock, the events of glfwPollEvents, and how the process ends.      *)

s_exit_on_input_delay == 1500

\* milliseconds since s_start_time at which the clock is read; the last stands
\* for every later instant
ClockTicks == {0, s_exit_on_input_delay, s_exit_on_input_delay + 1}

\* the window of a full-screen launch: the primary monitor's video mode (944-945)
VideoMode == <<800, 600>>

\* the sizes the window is given in this specification
RunSizes == {<<800, 600>>, <<300, 2>>}

\* the programs initialize() loads, in the order of their load_program calls:
\* 846-848, then the two of blur_filter's constructor and the three of bloom's
Programs == <<"s_prg_strings", "s_prg_pass_trough", "s_prg_hdr",
              "m_prg_hblur", "m_prg_vblur",
              "m_prg_prefilter", "m_prg_downsample", "m_prg_upsample">>

\* the objects s_font, s_blur_filter, s_fx_bloom point to when the load_program
\* call of program number k runs: the font is made at 851, the blur filter is
\* assigned at 855 only after its constructor has returned, the bloom at 858
objects_at(k) ==
    IF k <= 3 THEN {}
    ELSE IF k <= 5 THEN {"font"}
    ELSE {"font", "blur_filter"}

Dtor(o) ==
    CASE o = "font" -> "~font"
      [] o = "blur_filter" -> "~blur_filter"
      [] o = "bloom" -> "~bloom"

\* p = nullptr on one of the three unique_ptr: the object, if any, is destroyed
unique_ptr_reset(a, o) ==
    IF o \in a.objects
    THEN [a EXCEPT !.objects = @ \ {o}, !.events = Append(@, Dtor(o))]
    ELSE a

glfwTerminate(a) == [a EXCEPT !.events = Append(@, "glfwTerminate")]

\* exit(): the objects of static storage duration are destroyed in the reverse
\* order of their definitions (551-553), then the process ends with exit_code
exit(a, exit_code) ==
    [unique_ptr_reset(unique_ptr_reset(unique_ptr_reset(a, "bloom"), "blur_filter"), "font")
     EXCEPT !.events = Append(@, "exit"), !.exit = <<exit_code>>]

\* terminate that releases the context first and leaves the objects to exit()
terminate_context_first(a, exit_code) == exit(glfwTerminate(a), exit_code)

\* terminate (901-911)
terminate(a, exit_code) ==
    exit(glfwTerminate(unique_ptr_reset(unique_ptr_reset(unique_ptr_reset(a, "font"),
                                                         "blur_filter"), "bloom")),
         exit_code)

\* terminate_with_error (927-931)
terminate_with_error(a, descr) ==
    terminate([a EXCEPT !.cerr = Append(@, descr)], -1)

\* the test of on_key and on_cursor_pos with the clock at now, inclusive
grace_period_over_at(now) == now >= s_exit_on_input_delay

\* clock_t::now() - s_start_time > s_exit_on_input_delay (917, 923)
grace_period_over(now) == now > s_exit_on_input_delay

\* no context: nothing generated, nothing bound
NoContext ==
    [initialize_objects(FALSE) EXCEPT !.fbs = {}, !.att = << >>, !.texs = {},
                                      !.bound = [u \in 0..1 |-> 0]]

\* the process is gone: as Gone, with args left to the action
Ended(how, f, begun) ==
    /\ pc' = how
    /\ fault' = f
    /\ rand_pos' = 1
    /\ s_falling_strings' = empty_pool
    /\ s_grids' = [l \in DOMAIN s_depth_layers |-> << >>]
    /\ gl' = NoContext
    /\ s_fx_bloom' = bloom_ctor
    /\ respawned' = begun
    /\ UNCHANGED pixels

\* main has called run(config).  args: the configuration; the objects the three
\* unique_ptr hold and those ever made; the call that ended the process, and the
\* clock it read; what was written to std::cerr; the exit code; the destructors,
\* glfwTerminate and exit in the order they ran; the initialization error that
\* happened; whether a frame was rendered.
RunInit ==
    /\ AppIdle
    /\ pc = "run"
    /\ gl = NoContext
    /\ s_fx_bloom = bloom_ctor
    /\ pixels = NoPixels
    /\ \E full_screen \in BOOLEAN, exit_on_input \in BOOLEAN :
          args = [call |-> "run", full_screen |-> full_screen,
                  exit_on_input |-> exit_on_input,
                  objects |-> {}, made |-> {}, now |-> 0, cerr |-> << >>,
                  exit |-> << >>, events |-> << >>, failed |-> "none",
                  rendered |-> FALSE]

\* glfwInit() (939-940)
RunGlfwInit(ok) ==
    /\ pc = "run"
    /\ IF ok
       THEN /\ pc' = "glfw"
            /\ args' = [args EXCEPT !.call = "glfwInit"]
            /\ UNCHANGED <<fault, rand_pos, s_falling_strings, s_grids, gl, s_fx_bloom,
                           respawned, pixels>>
       ELSE /\ Ended("exited", "none", {})
            /\ args' = terminate_with_error(
                          [args EXCEPT !.call = "glfwInit", !.failed = "glfwInit"],
                          "Could not initialize GLFW")
    /\ UNCHANGED <<win, prev_win, oob_depth>>

\* glfwCreateWindow and the test of its result (942-955).  In full screen
\* glfwSetInputMode is given the window before the test: with no window the
\* library is outside its contract and the call either kills the process or
\* returns.
RunCreateWindow(ok, tolerated) ==
    /\ pc = "glfw"
    /\ IF ok
       THEN /\ pc' = "window"
            /\ win' = IF args.full_screen THEN VideoMode ELSE InitialWindow
            /\ prev_win' = IF args.full_screen THEN VideoMode ELSE InitialWindow
            /\ args' = [args EXCEPT !.call = "glfwCreateWindow"]
            /\ UNCHANGED <<fault, rand_pos, s_falling_strings, s_grids, gl, s_fx_bloom,
                           respawned, pixels>>
       ELSE IF args.full_screen /\ ~tolerated
       THEN /\ Ended("crashed", "null_window", {})
            /\ args' = [args EXCEPT !.call = "glfwCreateWindow",
                                    !.failed = "glfwCreateWindow"]
            /\ UNCHANGED <<win, prev_win>>
       ELSE /\ Ended("exited", "none", {})
            /\ args' = terminate_with_error(
                          [args EXCEPT !.call = "glfwCreateWindow",
                                       !.failed = "glfwCreateWindow"],
                          "Could not create window")
            /\ UNCHANGED <<win, prev_win>>
    /\ UNCHANGED oob_depth

\* initialize() (822-889) and s_start_time = clock_t::now() (967).  bad is the
\* number of the first program whose load_program fails (0: none), stage where:
\* load_shader (47-73) or the link (81-98); both hand the info log to
\* terminate_with_error.
RunInitialize(bad, stage, strict, oob) ==
    /\ pc = "window"
    /\ oob_depth' = oob
    /\ UNCHANGED <<win, prev_win>>
    /\ IF bad # 0
       THEN /\ Ended("exited", "none", {})
            /\ args' = terminate_with_error(
                          [args EXCEPT !.call = "initialize", !.failed = stage,
                                       !.objects = objects_at(bad),
                                       !.made = objects_at(bad)],
                          "info log")
       ELSE \E r \in {resize([initialize_objects(strict) EXCEPT !.window = win, !.vp = win],
                             bloom_ctor, empty_pool, win, 1, oob)} :
               /\ args' = [args EXCEPT !.call = "initialize",
                                       !.objects = {"font", "blur_filter", "bloom"},
                                       !.made = {"font", "blur_filter", "bloom"}]
               /\ pixels' = pixels
               /\ \/ /\ r.fault # "mod_zero"
                     /\ pc' = "start"
                     /\ rand_pos' = r.pos
                     /\ fault' = r.fault
                     /\ s_falling_strings' = r.pool
                     /\ gl' = r.g
                     /\ s_fx_bloom' = r.b
                     /\ UNCHANGED <<s_grids, respawned>>
                  \/ /\ r.fault # "none"
                     /\ pc' = "crashed"
                     /\ fault' = r.fault
                     /\ UNCHANGED <<rand_pos, s_falling_strings, s_grids, gl, s_fx_bloom,
                                    respawned>>

\* one turn of the loop (969-986), as Render
RunFrame(dt) ==
    /\ pc \in {"start", "poll"}
    /\ UNCHANGED <<win, prev_win, oob_depth>>
    /\ \E u \in {update_all(s_falling_strings, s_falling_strings_count, dt,
                            win[2] * s_col_count, win[1], rand_pos, oob_depth)},
          r \in {render_passes(s_fx_bloom, win[1], win[2])} :
          \/ /\ u.fault # "mod_zero"
             /\ ~r.aborted
             /\ s_falling_strings' = u.pool
             /\ s_grids' = u.grids
             /\ rand_pos' = u.pos
             /\ respawned' = u.respawned
             /\ fault' = u.fault
             /\ gl' = Exec([gl EXCEPT !.log = << >>, !.access = << >>], r.cmds)
             /\ pc' = "poll"
             /\ args' = [args EXCEPT !.rendered = TRUE]
             /\ UNCHANGED <<s_fx_bloom, pixels>>
          \/ /\ u.fault # "none"
             /\ Ended("crashed", u.fault, u.begun)
             /\ args' = [args EXCEPT !.call = "render"]
          \/ /\ u.fault # "mod_zero"
             /\ r.aborted
             /\ Ended("crashed", "assert", u.respawned)
             /\ args' = [args EXCEPT !.call = "render"]

\* on_window_resize during glfwPollEvents (913)
RunResize(sz) ==
    /\ pc = "poll"
    /\ sz # win
    /\ win' = sz
    /\ prev_win' = win
    /\ UNCHANGED <<oob_depth, args>>
    /\ \E r \in {resize(gl, s_fx_bloom, s_falling_strings, sz, rand_pos, oob_depth)} :
          \/ /\ r.fault # "mod_zero"
             /\ s_falling_strings' = r.pool
             /\ rand_pos' = r.pos
             /\ fault' = r.fault
             /\ gl' = r.g
             /\ s_fx_bloom' = r.b
             /\ respawned' = {}
             /\ UNCHANGED <<pc, s_grids, pixels>>
          \/ /\ r.fault # "none"
             /\ Ended("crashed", r.fault, {})

\* on_key (915-919) and on_cursor_pos (921-925) during glfwPollEvents, the clock
\* reading now milliseconds after s_start_time when the callback runs
RunInput(callback, now) ==
    /\ pc = "poll"
    /\ UNCHANGED <<win, prev_win, oob_depth>>
    /\ IF args.exit_on_input /\ grace_period_over(now)
       THEN /\ Ended("exited", "none", {})
            /\ args' = terminate([args EXCEPT !.call = callback, !.now = now], 0)
       ELSE UNCHANGED <<pc, fault, rand_pos, s_falling_strings, s_grids, gl,
                        s_fx_bloom, respawned, pixels, args>>

\* the window is closed during glfwPollEvents: the loop ends, terminate(0) (988)
RunClose ==
    /\ pc = "poll"
    /\ Ended("exited", "none", {})
    /\ args' = terminate([args EXCEPT !.call = "close"], 0)
    /\ UNCHANGED <<win, prev_win, oob_depth>>

RunNext ==
    \/ \E ok \in BOOLEAN : RunGlfwInit(ok)
    \/ \E ok \in BOOLEAN, tolerated \in BOOLEAN : RunCreateWindow(ok, tolerated)
    \/ \E bad \in 0..Len(Programs), stage \in {"glCompileShader", "glLinkProgram"},
          strict \in BOOLEAN, oob \in OobDepths : RunInitialize(bad, stage, strict, oob)
    \/ \E dt \in Dts : RunFrame(dt)
    \/ \E sz \in RunSizes : RunResize(sz)
    \/ \E callback \in {"on_key", "on_cursor_pos"}, now \in ClockTicks :
          RunInput(callback, now)
    \/ RunClose

SpecRun == RunInit /\ [][RunNext]_vars

Dtors == {"~font", "~blur_filter", "~bloom"}

\* C12: on every path that ends the process (the window is closed, a key or
\* cursor callback exits on input, terminate_with_error) the font, the blur filter
\* and the bloom object that exist are destroyed before glfwTerminate, and no
\* destructor of theirs runs after glfwTerminate.
C12_DestroyedBeforeContext ==
    pc = "exited" =>
       \E t \in DOMAIN args.events :
          /\ args.events[t] = "glfwTerminate"
          /\ \A k \in DOMAIN args.events : args.events[k] \in Dtors => k < t
          /\ \A o \in args.made : \E k \in 1..(t - 1) : args.events[k] = Dtor(o)

\* a cursor event after the grace period has ended the process, the three objects
\* destroyed first
C12_ExitOnInput ==
    /\ pc = "exited"
    /\ args.call = "on_cursor_pos"
    /\ args.events = <<"~font", "~blur_filter", "~bloom", "glfwTerminate", "exit">>

\* a program of bloom's constructor failed to load: the font and the blur filter
\* are destroyed before glfwTerminate
C12_ErrorInBloomConstructor ==
    /\ pc = "exited"
    /\ args.failed = "glLinkProgram"
    /\ args.events = <<"~font", "~blur_filter", "glfwTerminate", "exit">>

\* C13: the process exits with code 0 when the loop ends because the window was
\* closed, and with code -1, the description written to the error stream, on
\* every fatal initialization error (glfwInit, the window, a shader that does not
\* compile, a program that does not link); after such an error initialization
\* does not continue and no frame is rendered.
C13_ExitCodes ==
    /\ (pc = "exited" /\ args.call = "close") => args.exit = <<0>>
    /\ args.failed # "none" =>
          /\ pc = "exited"
          /\ args.exit = <<-1>>
          /\ Len(args.cerr) = 1
          /\ args.events[Len(args.events)] = "exit"
          /\ args.objects = {}
          /\ gl = NoContext
          /\ ~args.rendered

\* C14: with exit_on_input set, a key or cursor-position event ends the process,
\* with exit code 0, if and only if more than 1500 ms have passed since
\* s_start_time when the callback runs; an event inside the grace period changes
\* nothing; with exit_on_input clear no key or cursor event ends the process.
C14_GracePeriod ==
    [][\A callback \in {"on_key", "on_cursor_pos"}, now \in ClockTicks :
          RunInput(callback, now) =>
             /\ (pc' = "exited" /\ args'.exit = <<0>>)
                   <=> (args.exit_on_input /\ now > s_exit_on_input_delay)
             /\ pc' # "exited" => UNCHANGED vars]_vars

\* a key pressed after the grace period, with exit_on_input set and frames
\* rendered, has ended the process with code 0
C14_KeyAfterGracePeriod ==
    /\ pc = "exited"
    /\ args.call = "on_key"
    /\ args.exit_on_input
    /\ args.now > s_exit_on_input_delay
    /\ args.exit = <<0>>
    /\ args.rendered

---------------------------------------------------------------------------
(* The font's glyph table: SpecFont.  The table as font::load leaves it,   *)
(* frames and resizes as in Spec with the glyph of every cell followed,    *)
(* and font::swap_glyphs between frames.                                   *)

\* s_characters.size() (font.cpp 19-23): one glyph is pushed per character (80-86)
GlyphCount == 64

MaxSwaps == 2

\* the frames, resizes and swap_glyphs calls followed after initialization
MaxSteps == 4

\* the floats rng::next() returns, as numerators over 2^24: uniform in [0, 1)
\* (part_009 17-21); 0, the largest float below 1, and 1/2, in turn
RngStream == <<0, Pow2(24) - 1, Pow2(23)>>

\* the frame times of this specification, in units of 1/YDen s: the rows of a
\* string overlap those of the frame before after the short one
FontDts == {2, 61}

FontSizes == {<<800, 600>>}

\* a product of floats, as numerator over 2^24: rounded to 24 significant bits,
\* ties to even
float(num) ==
    IF num < Pow2(24) THEN num
    ELSE Val({LET q == num \div ulp
                  r == num % ulp
              IN IF 2 * r > ulp \/ (2 * r = ulp /\ q % 2 = 1)
                 THEN (q + 1) * ulp
                 ELSE q * ulp : ulp \in {Pow2(Log2Floor(num) - 23)}})

\* rng::next that rounds the scaled float to nearest instead of truncating
rng_next_rounded(min, max, f) == min + ((float((max - min) * f) + Pow2(23)) \div Pow2(24))

\* rng::next<std::size_t>(min, max) (common.h 103-108) when next() returns
\* f / 2^24: min + static_cast<T>((max - min) * next())
rng_next(min, max, f) == min + (float((max - min) * f) \div Pow2(24))

\* font::swap_glyphs(count) (font.cpp 137-145) with the engine at position pos of
\* RngStream: the table, the indices drawn, the engine's position
RECURSIVE swap_glyphs(_, _, _)
swap_glyphs(f, count, pos) ==
    IF count = 0 THEN [m_glyphs |-> f, idx |-> << >>, pos |-> pos]
    ELSE LET idx0 == rng_next(0, Len(f), RngStream[pos])
             pos1 == (pos % Len(RngStream)) + 1
             idx1 == rng_next(0, Len(f), RngStream[pos1])
             pos2 == (pos1 % Len(RngStream)) + 1
             inside == idx0 < Len(f) /\ idx1 < Len(f)
             swapped == IF inside THEN [f EXCEPT ![idx0 + 1] = f[idx1 + 1],
                                             ![idx1 + 1] = f[idx0 + 1]]
                              ELSE f
             rest == swap_glyphs(swapped, count - 1, pos2)
         IN [rest EXCEPT !.idx = <<idx0, idx1>> \o @]

RECURSIVE Pow2Mod(_, _)
Pow2Mod(i, n) == IF i = 0 THEN 1 % n ELSE (2 * Pow2Mod(i - 1, n)) % n

\* the remainder of the magnitude of v: no wrap modulo 2^64
size_t_mod_magnitude(v, n) == (IF v >= 0 THEN v ELSE -v) % n

\* static_cast<std::size_t>(v) % n for an int32_t v converted to 64 bits unsigned
size_t_mod(v, n) == IF v >= 0 THEN v % n ELSE (Pow2Mod(64, n) + (v % n)) % n

\* the glyph taken relative to the head of the string, not to the cell
get_random_glyph_from_head(x, y, glyphs) ==
    glyphs[size_t_mod(x * 2836 + (y - round(s_falling_strings[1].y)) * 23873,
                      Len(glyphs)) + 1]

\* get_random_glyph (599-605)
get_random_glyph(x, y, glyphs) ==
    glyphs[size_t_mod(x * 2836 + y * 23873, Len(glyphs)) + 1]

\* cell.set_glyph(get_random_glyph(s.x, y)) (623) for the cells of the grids
glyphs_of(grids, glyphs) ==
    {<<c.x, c.y, get_random_glyph(c.x, c.y, glyphs)>> :
        c \in UNION {{grids[l][k] : k \in DOMAIN grids[l]} : l \in DOMAIN grids}}

\* the positions of cells
Positions(cells) == {<<c[1], c[2]>> : c \in cells}

\* run() up to the loop, as Init, with the font loaded at 851-852: one glyph per
\* character, in the order of s_characters.  args: the table, the engine's
\* position, the indices the last swap_glyphs drew, the glyphs of the cells the
\* last frame put in the grids if no swap_glyphs came after it, and the positions
\* among them that the frame before had too; steps counts the actions taken.
FontInit ==
    /\ win = InitialWindow
    /\ prev_win = InitialWindow
    /\ pixels = NoPixels
    /\ respawned = {}
    /\ s_grids = [l \in DOMAIN s_depth_layers |-> << >>]
    /\ args = [call |-> "font::load", m_glyphs |-> [g \in 1..GlyphCount |-> g],
               rng_pos |-> 1, idx |-> << >>, glyphs |-> {}, again |-> {}, steps |-> 0]
    /\ \E strict \in BOOLEAN, oob \in OobDepths :
          \E r \in {resize(initialize_objects(strict), bloom_ctor, empty_pool,
                           InitialWindow, 1, oob)} :
             /\ r.fault = "none"
             /\ oob_depth = oob
             /\ fault = r.fault
             /\ pc = "start"
             /\ rand_pos = r.pos
             /\ s_falling_strings = r.pool
             /\ gl = r.g
             /\ s_fx_bloom = r.b

\* one turn of the loop (969-986), as Render, every cell given its glyph (623)
FontFrame(dt) ==
    /\ pc \in {"start", "poll"}
    /\ args.steps < MaxSteps
    /\ UNCHANGED <<win, prev_win, oob_depth>>
    /\ \E u \in {update_all(s_falling_strings, s_falling_strings_count, dt,
                            win[2] * s_col_count, win[1], rand_pos, oob_depth)},
          r \in {render_passes(s_fx_bloom, win[1], win[2])} :
          \/ /\ u.fault # "mod_zero"
             /\ ~r.aborted
             /\ s_falling_strings' = u.pool
             /\ s_grids' = u.grids
             /\ rand_pos' = u.pos
             /\ respawned' = u.respawned
             /\ fault' = u.fault
             /\ gl' = Exec([gl EXCEPT !.log = << >>, !.access = << >>], r.cmds)
             /\ pc' = "poll"
             /\ \E cells \in {glyphs_of(u.grids, args.m_glyphs)} :
                   args' = [args EXCEPT !.call = "render", !.idx = << >>,
                                        !.steps = @ + 1, !.glyphs = cells,
                                        !.again = Positions(cells) \cap Positions(args.glyphs)]
             /\ UNCHANGED <<s_fx_bloom, pixels>>
          \/ /\ u.fault # "none"
             /\ Ended("crashed", u.fault, u.begun)
             /\ args' = [args EXCEPT !.call = "render", !.idx = << >>, !.glyphs = {},
                                     !.again = {}, !.rng_pos = 1, !.steps = @ + 1]
          \/ /\ u.fault # "mod_zero"
             /\ r.aborted
             /\ Ended("crashed", "assert", u.respawned)
             /\ args' = [args EXCEPT !.call = "render", !.idx = << >>, !.glyphs = {},
                                     !.again = {}, !.rng_pos = 1, !.steps = @ + 1]

\* on_window_resize during glfwPollEvents (913), as OnWindowResize
FontResize(sz) ==
    /\ pc = "poll"
    /\ args.steps < MaxSteps
    /\ sz # win
    /\ win' = sz
    /\ prev_win' = win
    /\ UNCHANGED oob_depth
    /\ \E r \in {resize(gl, s_fx_bloom, s_falling_strings, sz, rand_pos, oob_depth)} :
          \/ /\ r.fault # "mod_zero"
             /\ s_falling_strings' = r.pool
             /\ rand_pos' = r.pos
             /\ fault' = r.fault
             /\ gl' = r.g
             /\ s_fx_bloom' = r.b
             /\ respawned' = {}
             /\ args' = [args EXCEPT !.call = "on_window_resize", !.idx = << >>,
                                     !.again = {}, !.steps = @ + 1]
             /\ UNCHANGED <<pc, s_grids, pixels>>
          \/ /\ r.fault # "none"
             /\ Ended("crashed", r.fault, {})
             /\ args' = [args EXCEPT !.call = "on_window_resize", !.idx = << >>,
                                     !.glyphs = {}, !.again = {}, !.rng_pos = 1,
                                     !.steps = @ + 1]

\* s_font->swap_glyphs(count) between two frames
FontSwap(count) ==
    /\ pc = "poll"
    /\ args.steps < MaxSteps
    /\ \E r \in {swap_glyphs(args.m_glyphs, count, args.rng_pos)} :
          args' = [args EXCEPT !.call = "font::swap_glyphs", !.m_glyphs = r.m_glyphs,
                               !.rng_pos = r.pos, !.idx = r.idx, !.glyphs = {},
                               !.again = {}, !.steps = @ + 1]
    /\ UNCHANGED <<pc, win, prev_win, rand_pos, oob_depth, fault, s_falling_strings,
                   s_grids, gl, s_fx_bloom, respawned, pixels>>

FontNext ==
    \/ \E dt \in FontDts : FontFrame(dt)
    \/ \E sz \in FontSizes \cup {InitialWindow} : FontResize(sz)
    \/ \E count \in 0..MaxSwaps : FontSwap(count)

SpecFont == FontInit /\ [][FontNext]_vars

C16_SwapPermutes ==
    /\ Len(args.m_glyphs) = GlyphCount
    /\ {args.m_glyphs[k] : k \in 1..GlyphCount} = 1..GlyphCount
    /\ \A k \in DOMAIN args.idx : args.idx[k] >= 0 /\ args.idx[k] < GlyphCount

\* swap_glyphs(2) has drawn the first and the last index and left a table that is
\* not the loaded one
C16_SwappedEnds ==
    /\ args.call = "font::swap_glyphs"
    /\ Len(args.idx) = 4
    /\ 0 \in {args.idx[k] : k \in DOMAIN args.idx}
    /\ GlyphCount - 1 \in {args.idx[k] : k \in DOMAIN args.idx}
    /\ args.m_glyphs # [g \in 1..GlyphCount |-> g]

---------------------------------------------------------------------------
(* Resizes and frames: C17, on SpecRun                                     *)

\* the textures resize() gives storage to (799-819): the render targets and the
\* bloom chain; that of the blur filter is its own, given storage by every apply
ResizedTextures ==
    {s_tx_final_render, s_tx_blur0, s_tx_blur1}
        \cup SeqRange(s_fx_bloom.m_tx_downsample) \cup SeqRange(s_fx_bloom.m_tx_upsample)

\* a step that leaves the process running has given one of them new storage or
\* rebuilt the bloom chain
Reallocated ==
    /\ pc' \in {"start", "poll"}
    /\ \/ s_fx_bloom' # s_fx_bloom
       \/ \E tex \in ResizedTextures : SizeOf(tex)' # SizeOf(tex)

\* the step is the window-size callback inside glfwPollEvents, after the swap of
\* a frame; it leaves the grids alone
InWindowSizeCallback ==
    /\ pc = "poll"
    /\ pc' = "poll"
    /\ args.rendered
    /\ win' # win
    /\ s_grids' = s_grids

\* once the step is over the textures have the size of the window
ResizeComplete ==
    pc \in {"start", "poll"} =>
        /\ SizeOf(s_tx_final_render) = win
        /\ SizeOf(s_tx_blur0) = <<win[1] \div s_blur_scale, win[2] \div s_blur_scale>>
        /\ SizeOf(s_tx_blur1) = <<win[1] \div s_blur_scale, win[2] \div s_blur_scale>>
        /\ s_fx_bloom.m_width = win[1]
        /\ s_fx_bloom.m_height = win[2]

---------------------------------------------------------------------------
(* The terminal intro: SpecIntro.  No file of the sources holds it; the    *)
(* state machine is the one the specification describes in 4.5: typing     *)
(* (line_index, char_index, timer); on timer expiry the next character is  *)
(* typed; an exhausted line moves to the next line after a pause; after    *)
(* the last character of the last line the state is done and the rain      *)
(* renderer has control.                                                   *)

MaxUpdates == 8

\* the lengths of the fixed lines typed, the delay between two characters and the
\* pause between two lines, in the units of the frame time
IntroLines == {<<1>>, <<2, 1>>, <<1, 3>>}
IntroDelays == {0, 2}
IntroPauses == {0, 3}
IntroDts == {0, 1, 2}

\* an update that starts typing the first line again once the machine is done
intro_update_restarting(m, dt) ==
    IF m.state = "done"
    THEN [m EXCEPT !.state = "typing", !.line_index = 1, !.char_index = 0,
                   !.timer = m.delay]
    ELSE IF m.timer - dt > 0 THEN [m EXCEPT !.timer = @ - dt]
    ELSE IF m.char_index < m.lines[m.line_index]
    THEN [m EXCEPT !.char_index = @ + 1, !.timer = m.delay]
    ELSE IF m.line_index < Len(m.lines)
    THEN [m EXCEPT !.line_index = @ + 1, !.char_index = 0, !.timer = m.pause]
    ELSE [m EXCEPT !.state = "done"]

\* one update of the intro with frame time dt
intro_update(m, dt) ==
    IF m.state = "done" THEN [m EXCEPT !.rain = @ + 1]
    ELSE IF m.timer - dt > 0 THEN [m EXCEPT !.timer = @ - dt]
    ELSE IF m.char_index < m.lines[m.line_index]
    THEN [m EXCEPT !.char_index = @ + 1, !.timer = m.delay]
    ELSE IF m.line_index < Len(m.lines)
    THEN [m EXCEPT !.line_index = @ + 1, !.char_index = 0, !.timer = m.pause]
    ELSE [m EXCEPT !.state = "done"]

\* the intro starts typing its first line; rain counts the updates the rain
\* renderer was given, updates all of them
IntroInit ==
    /\ AppIdle
    /\ pc = "intro"
    /\ gl = NoContext
    /\ s_fx_bloom = bloom_ctor
    /\ pixels = NoPixels
    /\ \E lines \in IntroLines, delay \in IntroDelays, pause \in IntroPauses :
          args = [call |-> "none", state |-> "typing", lines |-> lines, delay |-> delay,
                  pause |-> pause, line_index |-> 1, char_index |-> 0, timer |-> delay,
                  rain |-> 0, updates |-> 0]

\* the frame loop calls the update with the measured frame time
IntroUpdate(dt) ==
    /\ pc = "intro"
    /\ args.updates < MaxUpdates
    /\ args' = [intro_update(args, dt) EXCEPT !.call = "update", !.updates = @ + 1]
    /\ UNCHANGED <<pc, gl, s_fx_bloom, pixels>>
    /\ AppUnchanged

\* a key or cursor event: the intro does not read input
IntroInput ==
    /\ pc = "intro"
    /\ args' = [args EXCEPT !.call = "input"]
    /\ UNCHANGED <<pc, gl, s_fx_bloom, pixels>>
    /\ AppUnchanged

IntroNext ==
    \/ \E dt \in IntroDts : IntroUpdate(dt)
    \/ IntroInput

SpecIntro == IntroInit /\ [][IntroNext]_vars

\* C18: done is absorbing: once the last character of the last line has been
\* typed and the machine is done, no update, timer expiry or input returns it to
\* typing, and every later update goes to the rain renderer.
C18_DoneIsAbsorbing ==
    [][args.state = "done" =>
          /\ args'.state = "done"
          /\ args'.line_index = args.line_index
          /\ args'.char_index = args.char_index
          /\ args'.call = "update" => args'.rain = args.rain + 1]_vars

\* both lines were typed, the machine is done, and updates and an input came after
C18_DoneThenInput ==
    /\ args.state = "done"
    /\ Len(args.lines) = 2
    /\ args.line_index = 2
    /\ args.char_index = args.lines[2]
    /\ args.rain >= 2
    /\ args.call = "input"

---------------------------------------------------------------------------
(* The upsample pass of bloom::compute: C19, on SpecBloom                  *)

\* s_fs_bloom_upsample (filter.cpp 112-140) with its samplers on textures
\* uPrevious and uDownsample: the 3x3 tent (1 2 1 / 2 4 2 / 1 2 1 over 16) is
\* taken of uDownsample around fUv, with the texel size of uDownsample, and one
\* sample of uPrevious at fUv is added
s_fs_bloom_upsample(uPrevious, uDownsample) ==
    [tent |-> uDownsample, texel_size |-> uDownsample, added |-> uPrevious]

\* the draws of the upsample program, in the order made
UpsampleDraws ==
    SelectSeq(gl.log, LAMBDA r : r.op = "draw" /\ r.prog = "upsample")

\* C19: in bloom::compute, for each level i from the length of the chain - 2 down
\* to 0, upsample level i is the 3x3 tent-filtered sample of upsample level i + 1
\* added to downsample level i; the texture returned is upsample level 0.
C19_TentOnPreviousLevel ==
    (pc = "bloom_computed") =>
        LET n == Len(s_fx_bloom.m_tx_upsample)
        IN /\ Len(UpsampleDraws) = n - 1
           /\ \A k \in 1..(n - 1) :
                 LET i == n - 1 - k
                     r == UpsampleDraws[k]
                     out == s_fs_bloom_upsample(r.src[1], r.src[2])
                 IN /\ r.dst = At(s_fx_bloom.m_tx_upsample, i)
                    /\ out.tent = At(s_fx_bloom.m_tx_upsample, i + 1)
                    /\ out.added = At(s_fx_bloom.m_tx_downsample, i)
           /\ args.result = At(s_fx_bloom.m_tx_upsample, 0)

---------------------------------------------------------------------------
(* update_falling_string as a function of the string: SpecFade.  The       *)
(* string is any string, also of a length init_falling_string never draws. *)

FadeLengths == {1, 2, s_falling_string_min_length, s_falling_string_max_length - 1}
FadeYs == {0, 7, 300}
FadeXs == {0, s_col_count - 1}

\* a pool of strings of one length in a 1280x768 window, the grids empty
FadeInit ==
    /\ pc = "fade"
    /\ win = InitialWindow
    /\ prev_win = InitialWindow
    /\ rand_pos = 1
    /\ fault = "none"
    /\ respawned = {}
    /\ gl = NoContext
    /\ s_fx_bloom = bloom_ctor
    /\ pixels = NoPixels
    /\ args = NoCall
    /\ s_grids = [l \in DOMAIN s_depth_layers |-> << >>]
    /\ oob_depth \in OobDepths
    /\ \E x \in FadeXs, y \in FadeYs, layer_index \in DOMAIN s_depth_layers,
          length \in FadeLengths :
          s_falling_strings = [n \in 1..s_falling_strings_count |->
                                  [x |-> x, y |-> y, speed |-> s_falling_string_min_speed,
                                   layer_index |-> layer_index, length |-> length]]

\* the grids are cleared and update_falling_string is called on every string
\* (663-669)
FadeUpdate(dt) ==
    /\ pc = "fade"
    /\ UNCHANGED <<win, prev_win, oob_depth>>
    /\ \E u \in {update_all(s_falling_strings, Len(s_falling_strings), dt,
                            win[2] * s_col_count, win[1], rand_pos, oob_depth)} :
          \/ /\ u.fault # "mod_zero"
             /\ s_falling_strings' = u.pool
             /\ s_grids' = u.grids
             /\ rand_pos' = u.pos
             /\ respawned' = u.respawned
             /\ fault' = u.fault
             /\ UNCHANGED <<pc, gl, s_fx_bloom, pixels, args>>
          \/ /\ u.fault # "none"
             /\ Ended("crashed", u.fault, u.begun)
             /\ UNCHANGED args

FadeNext == \E dt \in Dts : FadeUpdate(dt)

SpecFade == FadeInit /\ [][FadeNext]_vars

\* the cells the last update put in the grids
Cells == UNION {{s_grids[l][k] : k \in DOMAIN s_grids[l]} : l \in DOMAIN s_grids}

---------------------------------------------------------------------------
(* init_falling_string and the rows of a new string: C21, C24              *)

\* the undefined operations of init_falling_string: a zero right operand of %
\* (572, 576) and the read of s_depth_layers past its end (571, 576)
InitFaults == {"mod_zero", "oob_depth_layer"}

\* C21: init_falling_string(s, view_height) completes without a failing
\* operation (no division or modulo by zero, no out-of-range read of the
\* depth-layer table) for every view height resize() and a respawn in update call
\* it with, windows so wide and low that view_height / depth_factor truncates to 0
\* included.
C21_InitCompletes == fault \notin InitFaults

---------------------------------------------------------------------------
(* The grids of a frame: C22, on a pool of GridCount strings (SpecGrid)     *)

GridCount == 2

\* the strings of the pool: two layers, two lengths, on screen and below it
GridStrings == {[x |-> 0, y |-> y, speed |-> s_falling_string_min_speed,
                 layer_index |-> layer_index, length |-> length] :
                   y \in {7, 300}, layer_index \in {0, 3},
                   length \in {s_falling_string_min_length, s_falling_string_min_length + 1}}

GridInit ==
    /\ pc = "fade"
    /\ win = InitialWindow
    /\ prev_win = InitialWindow
    /\ rand_pos = 1
    /\ fault = "none"
    /\ respawned = {}
    /\ gl = NoContext
    /\ s_fx_bloom = bloom_ctor
    /\ pixels = NoPixels
    /\ args = NoCall
    /\ s_grids = [l \in DOMAIN s_depth_layers |-> << >>]
    /\ oob_depth \in OobDepths
    /\ s_falling_strings \in [1..GridCount -> GridStrings]

SpecGrid == GridInit /\ [][FadeNext]_vars

\* the rows of string s, as cells: round(y) - length + 1 .. round(y)
RowsOf(s) ==
    [j \in 1..s.length |-> [x |-> s.x, y |-> round(s.y) - s.length + j,
                            layer |-> s.layer_index]]

\* the rows of the strings of pool[1..n] whose layer_index is k, in pool order
RECURSIVE LayerCells(_, _, _)
LayerCells(pool, n, k) ==
    IF n = 0 THEN << >>
    ELSE LayerCells(pool, n - 1, k)
           \o (IF pool[n].layer_index = k THEN RowsOf(pool[n]) ELSE << >>)

\* where the cells of a grid are
PlacesOf(grid) ==
    [i \in DOMAIN grid |-> [x |-> grid[i].x, y |-> grid[i].y, layer |-> grid[i].layer]]

\* C22: every frame rebuilds the grids from scratch: after all strings are
\* updated grid k holds exactly the cells of the strings whose layer_index was k
\* at the start of their update, `length` cells each (rows round(y) - length + 1 ..
\* round(y)), in pool order; no cell of an earlier frame survives and no cell is
\* in a layer other than its string's.
C22_GridsRebuilt ==
    [][\A dt \in Dts :
          (FadeUpdate(dt) /\ pc' = "fade") =>
             /\ DOMAIN s_grids' = DOMAIN s_depth_layers
             /\ \A k \in DOMAIN s_depth_layers :
                   PlacesOf(s_grids'[k])
                      = LayerCells(s_falling_strings, Len(s_falling_strings), k)]_vars

\* a frame has put two strings of different lengths in one grid, one after the
\* other, and left another grid empty
C22_TwoStringsInOneGrid ==
    /\ pc = "fade"
    /\ \E k \in DOMAIN s_grids :
          /\ Len(s_grids[k]) = (2 * s_falling_string_min_length) + 1
          /\ s_grids[k][1].y # s_grids[k][s_falling_string_min_length + 1].y
    /\ \E k \in DOMAIN s_grids : s_grids[k] = << >>
    /\ respawned # {}

---------------------------------------------------------------------------
(* The head position in single precision: C23 (SpecAdvance).                *)
(* A float is sign and magnitude, [neg, int, frac]: the value               *)
(* +-(int + frac / 2^26).  Every head position this specification reaches  *)
(* is a multiple of 2^-26.                                                  *)

FracOne == Pow2(26)

\* the updates followed after a string is initialized
MaxAdvance == 60

\* 1.0f / 60: the float nearest to 1/60, as numerator over 2^29
OneSixtieth == (((2 * Pow2(29)) \div 60) + 1) \div 2

\* frame times, as numerators over 2^29
AdvanceDts == {0, OneSixtieth}

\* float(n) for an integer n of fewer than 24 bits
to_float(n) == [neg |-> n < 0, int |-> IF n < 0 THEN -n ELSE n, frac |-> 0]

\* a magnitude int + frac / 2^26 rounded to 24 significant bits, ties to even
float_round(neg, int, frac) ==
    IF int = 0
    THEN LET f == float(frac)
         IN [neg |-> neg /\ f # 0, int |-> f \div FracOne, frac |-> f % FracOne]
    ELSE Val({LET q == frac \div ulp
                  r == frac % ulp
                  f == IF (2 * r > ulp) \/ (2 * r = ulp /\ q % 2 = 1)
                       THEN (q + 1) * ulp ELSE q * ulp
              IN [neg |-> neg, int |-> int + (f \div FracOne), frac |-> f % FracOne] :
                 ulp \in {Pow2(Log2Floor(int) + 3)}})

\* the float product dt * speed of 630, for dt = dt29 / 2^29 and a speed that is
\* a whole number; the product is 0 or at least 1/8
float_mul(dt29, speed) ==
    LET p == float(dt29 * speed)
    IN [neg |-> FALSE, int |-> p \div Pow2(29), frac |-> (p % Pow2(29)) \div 8]

\* the float sum a + d of 630, for d >= 0
float_add(a, d) ==
    IF ~a.neg
    THEN float_round(FALSE, a.int + d.int + ((a.frac + d.frac) \div FracOne),
                     (a.frac + d.frac) % FracOne)
    ELSE IF a.int > d.int \/ (a.int = d.int /\ a.frac >= d.frac)
    THEN IF a.frac >= d.frac
         THEN float_round(a.int # d.int \/ a.frac # d.frac, a.int - d.int, a.frac - d.frac)
         ELSE float_round(TRUE, a.int - d.int - 1, FracOne + a.frac - d.frac)
    ELSE IF d.frac >= a.frac
         THEN float_round(FALSE, d.int - a.int, d.frac - a.frac)
         ELSE float_round(FALSE, d.int - a.int - 1, FracOne + d.frac - a.frac)

\* std::round of a float (611): to nearest, halves away from zero
float_to_row(v) ==
    LET m == v.int + (IF 2 * v.frac >= FracOne THEN 1 ELSE 0)
    IN IF v.neg THEN -m ELSE m

\* the string is moved by dt, not by dt * speed
advance_by_dt(s, dt29) ==
    [s EXCEPT !.y = Val({float_add(y, d) : y \in {@}, d \in {float_mul(dt29, 1)}})]

\* the head is put back above the view once it has entered it
advance_held(s, dt29) ==
    [s EXCEPT !.y = Val({IF y.neg THEN float_add(y, d) ELSE to_float(-1) :
                            y \in {@}, d \in {float_mul(dt29, s.speed)}})]

\* s.y += dt * s.speed (630)
advance(s, dt29) ==
    [s EXCEPT !.y = Val({float_add(y, d) : y \in {@}, d \in {float_mul(dt29, s.speed)}})]

\* the string with its head at the row std::round gives (611), in 1/YDen rows
at_row(s) == [s EXCEPT !.y = float_to_row(@) * YDen]

\* strings as init_falling_string leaves them, and one past the bottom of the
\* 1280x768 window
AdvanceYs == {-15, -17, -31, -438, 74}

AdvanceInitIn(window, ys) ==
    /\ pc = "advance"
    /\ win = window
    /\ prev_win = window
    /\ rand_pos = 1
    /\ fault = "none"
    /\ respawned = {}
    /\ gl = NoContext
    /\ s_fx_bloom = bloom_ctor
    /\ pixels = NoPixels
    /\ s_grids = [l \in DOMAIN s_depth_layers |-> << >>]
    /\ oob_depth \in OobDepths
    /\ \E y \in ys, layer_index \in {0, 3},
          speed \in {s_falling_string_min_speed, s_falling_string_max_speed - 1} :
          /\ s_falling_strings = <<[x |-> 0, y |-> to_float(y), speed |-> speed,
                                    layer_index |-> layer_index,
                                    length |-> s_falling_string_min_length]>>
          /\ args = [call |-> "init_falling_string", y |-> to_float(y), updates |-> 0]

AdvanceInit == AdvanceInitIn(InitialWindow, AdvanceYs)

\* update_falling_string(s, dt, view_width, view_height) on the string of the
\* pool: the cells of its rows, then 630, then the respawn of 633-634.  args is
\* the head init_falling_string left and the updates with dt > 0 made since, up
\* to MaxAdvance.
AdvanceStep(dt29) ==
    /\ pc = "advance"
    /\ UNCHANGED <<win, prev_win, oob_depth>>
    /\ \E u \in {update_falling_string(at_row(s_falling_strings[1]), 0,
                                       win[2] * s_col_count, win[1], rand_pos, oob_depth)} :
          \/ /\ u.fault # "mod_zero"
             /\ s_falling_strings' =
                   <<IF u.respawn THEN [u.s EXCEPT !.y = to_float(@ \div YDen)]
                     ELSE advance(s_falling_strings[1], dt29)>>
             /\ s_grids' = [l \in DOMAIN s_depth_layers |->
                              IF l = s_falling_strings[1].layer_index THEN u.cells ELSE << >>]
             /\ rand_pos' = u.pos
             /\ respawned' = IF u.respawn THEN {1} ELSE {}
             /\ fault' = u.fault
             /\ args' = IF u.respawn
                        THEN [call |-> "init_falling_string",
                              y |-> to_float(u.s.y \div YDen), updates |-> 0]
                        ELSE [args EXCEPT !.call = "update_falling_string",
                                          !.updates = IF dt29 > 0 /\ @ < MaxAdvance
                                                      THEN @ + 1 ELSE @]
             /\ UNCHANGED <<pc, gl, s_fx_bloom, pixels>>
          \/ /\ u.fault # "none"
             /\ Ended("crashed", u.fault, IF u.in_init THEN {1} ELSE {})
             /\ UNCHANGED args

\* the updates of a string up to MaxAdvance after init_falling_string
AdvanceUpdate(dt29) == args.updates < MaxAdvance /\ AdvanceStep(dt29)

AdvanceNext == \E dt29 \in AdvanceDts : AdvanceUpdate(dt29)

SpecAdvance == AdvanceInit /\ [][AdvanceNext]_vars

\* the float v is within 2^-10 of the whole number n # 0
NearRow(v, n) ==
    LET m == IF n < 0 THEN -n ELSE n
    IN /\ v.neg <=> n < 0
       /\ \/ v.int = m /\ v.frac <= Pow2(16)
          \/ v.int = m - 1 /\ v.frac >= FracOne - Pow2(16)

\* C23: an update_falling_string call that does not respawn the string changes
\* only its head position, y' = y + speed * dt, and leaves x, speed, length and
\* layer_index as they are; so a string of speed 10 that is not respawned has
\* advanced by 10 rows after 60 updates with dt = 1/60.
C23_HeadAdvances ==
    /\ [](\A n \in DOMAIN s_falling_strings :
             (pc = "advance" /\ args.updates = 60
                 /\ s_falling_strings[n].speed = 10) =>
                /\ float_to_row(s_falling_strings[n].y) = float_to_row(args.y) + 10
                /\ NearRow(s_falling_strings[n].y, float_to_row(args.y) + 10))
    /\ [][\A dt29 \in AdvanceDts :
             (AdvanceUpdate(dt29) /\ pc' = "advance" /\ respawned' = {}) =>
                \A n \in DOMAIN s_falling_strings :
                   s_falling_strings'[n] =
                      [s_falling_strings[n] EXCEPT
                          !.y = float_add(@, float_mul(dt29, s_falling_strings[n].speed))]]_vars

\* a string of speed 10 that init_falling_string left at row -17 has been updated
\* 60 times with dt = 1/60 and is at row -7, its head not exactly there
C23_SixtyUpdates ==
    /\ pc = "advance"
    /\ args.updates = 60
    /\ args.y = to_float(-17)
    /\ s_falling_strings[1].speed = 10
    /\ float_to_row(s_falling_strings[1].y) = -7
    /\ s_falling_strings[1].y # to_float(-7)

---------------------------------------------------------------------------
(* C24, on the application (Spec)                                          *)

\* every row of string s, round(y) - length + 1 .. round(y), is above row 0 and
\* the head is at -length or above it
AboveTheView(s) ==
    /\ s.y <= (-s.length) * YDen
    /\ \A k \in DOMAIN cells_of(s) : cells_of(s)[k].y < 0

\* C24: immediately after init_falling_string, at startup, on every resize and
\* on every respawn, the head position is y <= -length, so every row of the
\* string, round(y) - length + 1 .. round(y), is negative: the whole string starts
\* above the visible area.
C24_StartsAboveTheView ==
    /\ [](pc = "start" => \A n \in DOMAIN s_falling_strings :
                              AboveTheView(s_falling_strings[n]))
    /\ [][Running' =>
             \A n \in DOMAIN s_falling_strings' :
                (win' # win \/ (\E dt \in Dts : Render(dt) /\ n \in respawned'))
                   => AboveTheView(s_falling_strings'[n])]_vars

\* a frame has respawned a string after the window was resized
C24_RespawnedAfterResize ==
    /\ pc = "poll"
    /\ win # InitialWindow
    /\ fault = "none"
    /\ \E n \in respawned : AboveTheView(s_falling_strings[n])

---------------------------------------------------------------------------
(* bloom::compute on an object that has no chain: C25 (SpecAssert).  The    *)
(* object of SpecBloom, resized to sizes that are not positive too and      *)
(* computed at any time, before the first resize included.                  *)

AssertDims == -1..2

\* s_fx_bloom->compute(s_tx_final_render, ...) whatever was called before
BloomComputeAnytime ==
    /\ pc \in {"bloom_new", "bloom_resized", "bloom_computed"}
    /\ \E c \in {bloom_compute(s_fx_bloom, s_tx_final_render)} :
          \/ /\ ~c.aborted
             /\ gl' = Exec([gl EXCEPT !.log = << >>, !.access = << >>,
                                      !.vp = <<s_fx_bloom.m_width, s_fx_bloom.m_height>>],
                           c.cmds)
             /\ args' = [call |-> "bloom::compute", width |-> s_fx_bloom.m_width,
                         height |-> s_fx_bloom.m_height,
                         before |-> Len(s_fx_bloom.m_tx_downsample), result |-> c.result,
                         again |-> (args.call = "bloom::compute")]
             /\ pc' = "bloom_computed"
             /\ UNCHANGED <<s_fx_bloom, pixels>>
             /\ AppUnchanged
          \/ /\ c.aborted
             /\ Ended("crashed", "assert", {})
             /\ UNCHANGED <<win, prev_win, oob_depth, args>>

AssertNext ==
    \/ \E width \in AssertDims, height \in AssertDims : BloomResize(width, height)
    \/ BloomComputeAnytime

SpecAssert == BloomInit /\ [][AssertNext]_vars

\* the object has no chain: no resize yet, or one with a width or height <= 0
NoChain == s_fx_bloom.m_sizes = << >>

\* C25: bloom::compute called before any bloom::resize, or after a resize with a
\* non-positive width or height (empty chain), is stopped by the assertion
\* m_width > 0 && m_height > 0 before any element of m_tx_downsample,
\* m_tx_upsample or m_sizes is accessed.
C25_AssertionStopsCompute ==
    /\ [](pc \in {"bloom_new", "bloom_resized", "bloom_computed"} =>
             /\ NoChain <=> (s_fx_bloom.m_width <= 0 \/ s_fx_bloom.m_height <= 0)
             /\ pc = "bloom_new" => NoChain
             /\ (pc = "bloom_resized" /\ (args.width <= 0 \/ args.height <= 0)) => NoChain)
    /\ [][(BloomComputeAnytime /\ NoChain) =>
             /\ pc' = "crashed"
             /\ fault' = "assert"
             /\ \A k \in DOMAIN bloom_compute(s_fx_bloom, s_tx_final_render).cmds :
                   bloom_compute(s_fx_bloom, s_tx_final_render).cmds[k][1] # "subscript"]_vars

\* compute was called after resize(w, h) with w > 0 and h <= 0 and the assertion
\* ended the process
C25_AbortedAfterResize ==
    /\ pc = "crashed"
    /\ fault = "assert"
    /\ args.call = "bloom::resize"
    /\ args.width > 0
    /\ args.height <= 0

---------------------------------------------------------------------------
(* What the passes of a frame read and write: C26, C27, C28 (Spec)          *)

\* the clears and draws of the last handler, in the order they ran
DrawnLog == SelectSeq(gl.log, LAMBDA r : r.op # "alloc")

\* the draw calls made by blur_filter::apply before record k of DrawnLog
BlurredBefore(k) ==
    {j \in 1..(k - 1) : DrawnLog[j].op = "draw" /\ DrawnLog[j].prog = "vblur"}

\* C26: no render pass samples the texture that is attached as its render
\* target: src # dst in each blur pass, tx_src # tx_dst in each background-layer
\* iteration of render, the prefilter, downsample and upsample passes of bloom
\* read only levels other than the one they write; and after the background loop
\* tx_src is the texture the blur wrote last, which is the one the final pass
\* samples.
C26_NoFeedback ==
    (pc = "poll" /\ FrameDrawn) =>
        /\ \A k \in DOMAIN DrawnLog :
              DrawnLog[k].op = "draw" =>
                 \A u \in DOMAIN DrawnLog[k].src : DrawnLog[k].src[u] # DrawnLog[k].dst
        /\ \A k \in DOMAIN DrawnLog :
              (DrawnLog[k].prog = "pass_trough" /\ DrawnLog[k].dst = s_tx_final_render) =>
                 /\ BlurredBefore(k) # {}
                 /\ \A j \in BlurredBefore(k) :
                       (\A i \in BlurredBefore(k) : i <= j) =>
                          DrawnLog[k].src[1] = DrawnLog[j].dst

\* a frame has drawn the three background layers, blurred each and copied the
\* result into the final-render texture, and bloom has run its three kinds of pass
C26_FrameWithBloomChain ==
    /\ pc = "poll"
    /\ Cardinality(BlurredBefore(Len(DrawnLog))) = s_depth_layers_size - 1
    /\ \E k \in DOMAIN DrawnLog :
          DrawnLog[k].prog = "pass_trough" /\ DrawnLog[k].dst = s_tx_final_render
    /\ \A p \in {"prefilter", "downsample", "upsample"} :
          \E k \in DOMAIN DrawnLog : DrawnLog[k].prog = p

\* record k of DrawnLog is one of render's own off-screen passes: the clear of the
\* source (679), and the clear, the copy and the layer drawn of each background
\* iteration (692-706) and of the final pass (721-733); not a pass of the blur
\* filter or of bloom, not the tone-map
OffScreenPass(k) ==
    /\ DrawnLog[k].dst \in {s_tx_blur0, s_tx_blur1, s_tx_final_render}
    /\ \/ DrawnLog[k].prog \in {"pass_trough", "strings"}
       \/ /\ DrawnLog[k].op = "clear"
          /\ k < Len(DrawnLog)
          /\ DrawnLog[k + 1].prog \notin {"hblur", "vblur"}

\* the framebuffer objects glGenFramebuffers returned (filter.cpp 144, 206;
\* application.cpp 864)
GeneratedFramebuffers == {blur_m_framebuffer, bloom_m_fb_render_target, s_fb_render_target}

\* C27: in every off-screen pass of render (the clear of the source, each
\* background layer, the final background-plus-foreground pass) the framebuffer
\* bound while the destination texture is attached and drawn into is
\* s_fb_render_target, the object glGenFramebuffers created; a texture handle is
\* never passed to glBindFramebuffer as a framebuffer name.
C27_RenderTargetFramebuffer ==
    (pc = "poll" /\ FrameDrawn) =>
        /\ \A k \in DOMAIN DrawnLog :
              OffScreenPass(k) => DrawnLog[k].fb = s_fb_render_target
        /\ \A k \in DOMAIN DrawnLog : DrawnLog[k].fb \in GeneratedFramebuffers \cup {0}
        /\ gl.fbs = GeneratedFramebuffers
        /\ ~gl.error

\* C28: at every draw call of a frame the viewport has the size of the texture
\* attached as the render target, or of the window for the default framebuffer,
\* also in the passes that do not set the viewport themselves: the blur passes,
\* which inherit the layer pass's w / s_blur_scale x h / s_blur_scale, and the
\* prefilter of bloom, which inherits the w x h of the final pass and writes
\* level 0 of the chain.
C28_ViewportIsTargetSize ==
    (pc = "poll" /\ FrameDrawn) =>
        /\ \A k \in DOMAIN DrawnLog :
              DrawnLog[k].op = "draw" =>
                 /\ DrawnLog[k].vp = DrawnLog[k].dstsize
                 /\ DrawnLog[k].fb = 0 => DrawnLog[k].vp = win
                 /\ DrawnLog[k].prog \in {"hblur", "vblur"} =>
                       DrawnLog[k].vp = <<win[1] \div s_blur_scale, win[2] \div s_blur_scale>>
                 /\ DrawnLog[k].prog = "prefilter" =>
                       /\ DrawnLog[k].vp = win
                       /\ DrawnLog[k].dst = At(s_fx_bloom.m_tx_downsample, 0)

\* a frame has been drawn after the window went from 1280x768 to 800x600: its
\* blur and prefilter passes ran under the viewport of 800x600
C28_FrameAfterShrinking ==
    /\ pc = "poll"
    /\ prev_win = <<1280, 768>>
    /\ win = <<800, 600>>
    /\ \A p \in {"hblur", "vblur", "prefilter", "downsample", "upsample", "hdr"} :
          \E k \in DOMAIN DrawnLog : DrawnLog[k].prog = p
    /\ \E k \in DOMAIN DrawnLog :
          DrawnLog[k].prog = "prefilter" /\ DrawnLog[k].vp = <<800, 600>>

---------------------------------------------------------------------------
(* C29, on the glyphs of the cells of SpecFont                              *)

\* C29: get_random_glyph(x, y) always indexes inside the glyph table when the
\* table is not empty: for every column x >= 0 and every row y, the negative rows
\* of strings still above the screen included, x * 2836 + y * 23873 is computed in
\* unsigned size_t arithmetic (a negative y wraps modulo 2^64) and its remainder
\* modulo the glyph count is in [0, glyph count).
C29_GlyphIndexInTable ==
    \A t \in args.glyphs :
       LET v == (t[1] * 2836) + (t[2] * 23873)
           n == Len(args.m_glyphs)
       IN /\ t[1] >= 0
          /\ n > 0
          /\ \E idx \in 0..(n - 1) :
                /\ args.m_glyphs[idx + 1] = t[3]
                /\ (idx - v) % n = (IF v < 0 THEN Pow2Mod(64, n) ELSE 0)

\* a frame drawn after a swap_glyphs has given glyphs to the cells of a string
\* that is still above the screen, in a column other than 0
C29_RowsAboveTheScreen ==
    /\ pc = "poll"
    /\ args.m_glyphs # [g \in 1..GlyphCount |-> g]
    /\ \E t \in args.glyphs :
          t[1] > 0 /\ t[2] < 0 /\ (t[1] * 2836) + (t[2] * 23873) < 0

---------------------------------------------------------------------------
(* Every string comes back: C30 (SpecLive).  The string of SpecAdvance,     *)
(* updated for ever; the loop of run() (969-986) starts a frame in every    *)
(* turn and the clock has advanced since the frame before.                  *)

\* the window after a resize to a quarter of its height: 15 rows in view, 100
\* at the farthest layer
LiveWindow == <<InitialWindow[1], InitialWindow[2] \div 4>>

\* heads as init_falling_string leaves them in that window
LiveYs == {-15, -31, -139}

LiveInit == AdvanceInitIn(LiveWindow, LiveYs)

LiveNext == \E dt29 \in AdvanceDts : AdvanceStep(dt29)

SpecLive == LiveInit /\ [][LiveNext]_vars /\ WF_vars(AdvanceStep(OneSixtieth))

===========================================================================
